---- MODULE Spec2Model ----
(***************************************************************************)
(* A model of the CDP browser automation engine of EasyTesting             *)
(* (src/src/browser/cdp-page.ts, src/src/browser/index.ts).                *)
(*                                                                         *)
(* The scripts the engine builds are evaluated inside the page; here each  *)
(* builder is an operator over the node list its selector matches at the   *)
(* moment of evaluation, and each verb is a sequence of actions, one per   *)
(* awaited protocol command, between which the page may change.            *)
(***************************************************************************)
EXTENDS Integers, Sequences, FiniteSets, TLC

\* ------------------------------------------------------------------ bounds
\* Elements of the document a selector can match are numbered 1..MaxEls, in
\* document order.
MaxEls == 3
\* Longest text typed by type().
MaxText == 2
MaxOpts == 2
MaxTimeout == 400
MaxLatency == 150
MaxSessions == 3
MaxDialogs == 2
MaxTabs == 3
MaxTokens == 2
\* Longest frame chain and most iframes one step's selector matches.
MaxDepth == 2
MaxFrames == 2
\* Most goto calls of a test.
MaxGotos == 3

VARIABLES
  list,      \* nodes the call's selector matches now, in document order
  tlist,     \* nodes the drag target selector matches now
  frameOk,   \* the frame chain of a frame handle reaches an accessible document
  frameOrigin, \* where the frame's viewport starts in the page's viewport
  checkedSet, \* the inputs whose checked flag is set
  selected,  \* positions (1-based) of the selected options of the <select>
  multiple,  \* the <select> has the multiple attribute
  call,      \* the verb in progress and its arguments
  pc,        \* position of the verb in its code
  value,     \* value of the latest Runtime.evaluate of the verb
  from,      \* point computed for the (first) element of the call
  to,        \* point computed for the drag target
  events,    \* Input.dispatch* commands issued by the call, in order
  domEvents, \* DOM events dispatched by the call's scripts, in order
  thrown,    \* error the call threw, or NoError
  ret        \* value the call returned

VARIABLES
  wcall,     \* the wait in progress: which one, its timeout, its URL pattern
  wpc,       \* position of the wait in its loop
  now,       \* Date.now(), in ms since the test started
  started,   \* Date.now() when the wait was called
  deadline,  \* deadline of the wait
  resumeAt,  \* when the pending await of the wait completes
  evals,     \* evaluations of the condition the wait has completed
  sleeps,    \* poll sleeps the wait has completed
  lastEval,  \* duration of the wait's latest evaluation
  endedAt,   \* Date.now() when the wait returned or threw
  url,       \* window.location.href
  tabs,      \* ids of the page targets the browser lists
  initialIds, \* waitForNewTab's snapshot
  newTab     \* id of the tab waitForNewTab returned a handle for (0: none)

VARIABLES
  dialogHandler, \* createBrowser's dialogHandler
  current,   \* the session (client) the browser drives
  open,      \* sessions that are connected
  armed,     \* sessions setupDialogHandler subscribed on
  dlg,       \* per session: the dialog callback's position
  pending,   \* per session: the handler the callback picked
  resolved,  \* per session: Page.handleJavaScriptDialog commands sent
  handles,   \* sessions (clients) that belong to a TabHandle
  left,      \* per session: commands the verb running on it has yet to issue
  inflight   \* per session: commands issued and awaiting their response

VARIABLES
  resolution \* a resolveSelector call: its argument and what it returned

VARIABLES
  frames,    \* per step of a frame chain: the iframes its selector matches
  doc        \* what the latest traversal of the chain evaluated to

VARIABLES
  tabOf,     \* per session: the tab (target) its client is attached to, 0: none
  opened,    \* per tab: the dialogs that opened in it
  sent,      \* per session: 'javascriptDialogOpening' events the browser sent it
  made,      \* the session that was current when the test made its locator
  lost,      \* sessions a locator action used although they were closed
  closed     \* browser.close() returned

VARIABLES
  gpc,       \* position of goto in its code
  gurl,      \* goto's argument
  gotos,     \* goto calls so far
  navigated, \* the browser's answer to the Page.navigate of the goto in progress
  fired,     \* the page the goto in progress navigated to fired its load event
  queue      \* messages the session received and the client has yet to handle

selVars == <<resolution>>
chainVars == <<frames, doc>>
tabVars == <<tabOf, opened, sent, made, lost, closed>>
navVars == <<gpc, gurl, gotos, navigated, fired, queue>>
extVars == <<chainVars, tabVars, navVars>>
waitVars == <<wcall, wpc, now, started, deadline, resumeAt, evals, sleeps, lastEval,
              endedAt, url, tabs, initialIds, newTab>>
dlgVars == <<dialogHandler, current, open, armed, dlg, pending, resolved, handles,
             left, inflight>>

domVars == <<list, tlist, frameOk, frameOrigin, checkedSet, selected, multiple>>
callVars == <<call, pc, value, from, to, events, domEvents, thrown, ret>>

vars == <<domVars, callVars, waitVars, dlgVars, selVars, extVars>>

\* ------------------------------------------------------- selectors (strings)
\* A string is a sequence of one-character strings.
WS == {" "}

RECURSIVE TrimStart(_)
TrimStart(s) == IF s # <<>> /\ Head(s) \in WS THEN TrimStart(Tail(s)) ELSE s

RECURSIVE TrimEnd(_)
TrimEnd(s) ==
  IF s # <<>> /\ s[Len(s)] \in WS THEN TrimEnd(SubSeq(s, 1, Len(s) - 1)) ELSE s

trim(s) == TrimEnd(TrimStart(s))

startsWith(s, p) == Len(s) >= Len(p) /\ SubSeq(s, 1, Len(p)) = p

isXPath(selector) ==
  LET t == trim(selector)
  IN  startsWith(t, <<"/">>) \/ startsWith(t, <<"(">>) \/ startsWith(t, <<".", "/">>)

\* The characters [\w-] of the strings used here, and toLowerCase on them.
WordChars ==
  {"n", "a", "m", "e", "i", "d", "c", "l", "s", "x", "t", "v", "b", "-", "_",
   "N", "A", "M", "E", "I", "D", "C"}

toLowerCase(c) ==
  CASE c = "N" -> "n" [] c = "A" -> "a" [] c = "M" -> "m" [] c = "E" -> "e"
    [] c = "I" -> "i" [] c = "D" -> "d" [] c = "C" -> "c" [] OTHER -> c

Lower(str) == [i \in DOMAIN str |-> toLowerCase(str[i])]

Quotes == {"\"", "'"}

\* First position from i on that holds no whitespace (\s*).
RECURSIVE SkipWs(_, _)
SkipWs(t, i) == IF i <= Len(t) /\ t[i] \in WS THEN SkipWs(t, i + 1) ELSE i

\* First position from i on that holds no [\w-] character.
RECURSIVE WordEnd(_, _)
WordEnd(t, i) == IF i <= Len(t) /\ t[i] \in WordChars THEN WordEnd(t, i + 1) ELSE i

\* trimmed.match(/^([\w-]+)\s*=\s*["']([^"']*)["']$/i): the two groups, or no
\* match.
AttrMatch(t) ==
  LET n == WordEnd(t, 1)
      j == SkipWs(t, n)
      k == SkipWs(t, j + 1)
      L == Len(t)
  IN  IF /\ n > 1
         /\ j <= L
         /\ t[j] = "="
         /\ k < L
         /\ t[k] \in Quotes
         /\ t[L] \in Quotes
         /\ \A m \in (k + 1)..(L - 1) : t[m] \notin Quotes
      THEN [ok |-> TRUE, name |-> SubSeq(t, 1, n - 1), value |-> SubSeq(t, k + 1, L - 1)]
      ELSE [ok |-> FALSE, name |-> <<>>, value |-> <<>>]

\* First position from i on that holds whitespace.
RECURSIVE TokenEnd(_, _)
TokenEnd(t, i) == IF i <= Len(t) /\ t[i] \notin WS THEN TokenEnd(t, i + 1) ELSE i

\* value.trim().split(/\s+/).filter(Boolean), from position i on.
RECURSIVE Split(_, _)
Split(t, i) ==
  LET b == SkipWs(t, i)
      e == TokenEnd(t, b)
  IN  IF b > Len(t) THEN <<>> ELSE <<SubSeq(t, b, e - 1)>> \o Split(t, e)

\* An escapeSelectorClass that escapes nothing.
escapeSelectorClassNone(c) == c

\* c.replace(/([\\!"#$%&'()*+,./:;<=>?@[\]^{|}~])/g, '\\$1'); the set of the
\* source has the grave accent too, a character no string here uses.
RECURSIVE escapeSelectorClass(_)
escapeSelectorClass(c) ==
  IF c = <<>> THEN <<>>
  ELSE (IF Head(c) \in {"\\", "!", "\"", "#", "$", "%", "&", "'", "(", ")", "*", "+",
                        ",", ".", "/", ":", ";", "<", "=", ">", "?", "@", "[", "]",
                        "^", "{", "|", "}", "~"}
        THEN <<"\\", Head(c)>>
        ELSE <<Head(c)>>) \o escapeSelectorClass(Tail(c))

\* classes.map((c) => `.${escapeSelectorClass(c)}`).join('')
RECURSIVE ClassSelector(_)
ClassSelector(classes) ==
  IF classes = <<>> THEN <<>>
  ELSE <<".">> \o escapeSelectorClass(Head(classes)) \o ClassSelector(Tail(classes))

\* `[${attr}="${value}"]`
AttrSelector(attr, v) == <<"[">> \o attr \o <<"=", "\"">> \o v \o <<"\"", "]">>

resolveSelector(locator) ==
  LET trimmed == trim(locator)
      m == AttrMatch(trimmed)
  IN  IF isXPath(trimmed) THEN trimmed
      ELSE IF m.ok /\ Lower(m.name) = <<"n", "a", "m", "e">>
      THEN AttrSelector(<<"n", "a", "m", "e">>, m.value)
      ELSE IF m.ok /\ Lower(m.name) = <<"i", "d">>
      THEN AttrSelector(<<"i", "d">>, m.value)
      ELSE IF m.ok /\ Lower(m.name) = <<"c", "l", "a", "s", "s">>
      THEN ClassSelector(Split(m.value, 1))
      ELSE IF m.ok THEN AttrSelector(m.name, m.value)
      ELSE trimmed

CssSel == <<"#", "a">>
XPathSel == <<" ", "/", "/", "a">>
Selectors == {CssSel, XPathSel}

\* ------------------------------------------------------------ LocatorIndex
Undefined == [kind |-> "undefined", n |-> 0]
First == [kind |-> "first", n |-> 0]
Last == [kind |-> "last", n |-> 0]
Nth(n) == [kind |-> "number", n |-> n]

\* index === 0 ? 'first' : index
ZeroToFirst(index) ==
  IF index.kind = "number" /\ index.n = 0 THEN First ELSE index

\* An index expression that counts matches from 1.
IdxExprOneBased(index, len) ==
  CASE index.kind = "first" -> 0
    [] index.kind = "last" -> len - 1
    [] OTHER -> index.n - 1

\* An index expression whose 'last' is one past the end.
IdxExprLastIsLen(index, len) ==
  CASE index.kind = "first" -> 0
    [] index.kind = "last" -> len
    [] OTHER -> index.n

\* ${index === 'first' ? 0 : index === 'last' ? 'list.length - 1' : index}
IdxExpr(index, len) ==
  CASE index.kind = "first" -> 0
    [] index.kind = "last" -> len - 1
    [] OTHER -> index.n

\* ------------------------------------------------------------ script values
\* What Runtime.evaluate yields for a script: kind "obj" is an object returned by
\* value (an error object when error # "none", else the payload of node el),
\* "null" the value null, "exception" a script that threw (no value key).
\* selector says whether an error object has a selector key.
ErrRes(e, c, i, s) ==
  [kind |-> "obj", error |-> e, count |-> c, index |-> i, el |-> 0, selector |-> s,
   act |-> "none"]
FoundRes(el) ==
  [kind |-> "obj", error |-> "none", count |-> 0, index |-> 0, el |-> el,
   selector |-> FALSE, act |-> "none"]
NullRes ==
  [kind |-> "null", error |-> "none", count |-> 0, index |-> 0, el |-> 0,
   selector |-> FALSE, act |-> "none"]
ExceptionRes ==
  [kind |-> "exception", error |-> "none", count |-> 0, index |-> 0, el |-> 0,
   selector |-> FALSE, act |-> "none"]

\* el.getBoundingClientRect() of node el (a fixed layout: one box per node).
Rect(el) == [x |-> 100 * el, y |-> 10 * el, width |-> 20, height |-> 10]

getCenter(rect) ==
  [x |-> rect.x + rect.width \div 2, y |-> rect.y + rect.height \div 2]

NoPoint == [x |-> 0, y |-> 0]

\* ------------------------------------------------- page-level find scripts
\* Each takes the node list the selector matches when the script runs.
buildStrictFindExpression(l) ==
  IF Len(l) = 0 THEN ErrRes("not-found", 0, 0, TRUE)
  ELSE IF Len(l) > 1 THEN ErrRes("strict", Len(l), 0, TRUE)
  ELSE FoundRes(l[1])

buildFindWithIndexExpression(l, index) ==
  IF Len(l) = 0 THEN ErrRes("not-found", 0, 0, TRUE)
  ELSE LET idx == IdxExpr(index, Len(l))
       IN  IF idx < 0 \/ idx >= Len(l)
           THEN ErrRes("out-of-range", Len(l), idx, TRUE)
           ELSE FoundRes(l[idx + 1])

buildStrictFindExpressionXPath(l) ==
  LET len == Len(l)
  IN  IF len = 0 THEN ErrRes("not-found", 0, 0, TRUE)
      ELSE IF len > 1 THEN ErrRes("strict", len, 0, TRUE)
      ELSE FoundRes(l[1])

buildFindWithIndexExpressionXPath(l, index) ==
  LET len == Len(l)
  IN  IF len = 0 THEN ErrRes("not-found", 0, 0, TRUE)
      ELSE LET idx == IdxExpr(index, len)
           IN  IF idx < 0 \/ idx >= len
               THEN ErrRes("out-of-range", len, idx, TRUE)
               ELSE FoundRes(l[idx + 1])

\* idxJs = index === 'last' ? 'len - 1' : typeof index === 'number' ? String(index) : '0'
buildGetRectAgainXPath(l, index) ==
  LET len == Len(l)
      idx == IF index.kind = "last" THEN len - 1
             ELSE IF index.kind = "number" THEN index.n ELSE 0
  IN  IF len = 0 THEN NullRes
      ELSE IF idx < 0 \/ idx >= len THEN NullRes
      ELSE FoundRes(l[idx + 1])

\* The CSS re-measure script getElementCenter builds inline.
GetRectAgainCss(l, index) ==
  LET useIndex == index.kind # "undefined"
      hasIdx == useIndex /\ index.kind \in {"last", "first", "number"}
  IN  IF hasIdx
      THEN LET idx == IdxExpr(index, Len(l))
           IN  IF Len(l) = 0 THEN NullRes
               ELSE IF idx < 0 \/ idx >= Len(l) THEN NullRes
               ELSE FoundRes(l[idx + 1])
      ELSE IF Len(l) # 1 THEN NullRes ELSE FoundRes(l[1])

\* The first measurement of getElementCenter and of type().
FindExpr(l, useXPath, index) ==
  IF index.kind # "undefined"
  THEN IF useXPath THEN buildFindWithIndexExpressionXPath(l, ZeroToFirst(index))
       ELSE buildFindWithIndexExpression(l, ZeroToFirst(index))
  ELSE IF useXPath THEN buildStrictFindExpressionXPath(l)
       ELSE buildStrictFindExpression(l)

\* ------------------------------------------------------------------ errors
NoError == [name |-> "none", locatorInput |-> <<>>, count |-> 0, index |-> 0]

\* The Error throwLocatorError(res, locatorInput) throws: which message, and
\* the selector, count and index the message shows.
throwLocatorError(res, locatorInput) ==
  IF res.error = "not-found"
  THEN [name |-> "not-found", locatorInput |-> locatorInput, count |-> 0, index |-> 0]
  ELSE IF res.error = "strict"
  THEN [name |-> "strict", locatorInput |-> locatorInput, count |-> res.count, index |-> 0]
  ELSE IF res.error = "out-of-range"
  THEN [name |-> "out-of-range", locatorInput |-> <<>>, count |-> res.count,
        index |-> res.index]
  ELSE [name |-> "unexpected", locatorInput |-> locatorInput, count |-> 0, index |-> 0]

OtherError(n, sel) == [name |-> n, locatorInput |-> sel, count |-> 0, index |-> 0]

\* ------------------------------------------------------------ page fixture
\* The nodes of the page under test: node 1 is <input type=checkbox>, node 2
\* <input type=radio>, node 3 a <select> with the options below, any further
\* node a <div>.
tagName(el) == IF el \in {1, 2} THEN "INPUT" ELSE IF el = 3 THEN "SELECT" ELSE "DIV"
type(el) == IF el = 1 THEN "checkbox" ELSE IF el = 2 THEN "radio" ELSE ""
Hidden(el) == el = 2
disabled(el) == el = 3
readOnly(el) == FALSE
isContentEditable(el) == el > 3

\* The <option>s of the <select>: textContent and value.
Options ==
  << [textContent |-> <<" ", "A", " ">>, value |-> "a"],
     [textContent |-> <<"B">>, value |-> "b"],
     [textContent |-> <<"C">>, value |-> "c"],
     [textContent |-> <<"A">>, value |-> "a2"] >>
NOpts == Len(Options)

\* ------------------------------------------------ element-finding closures
\* idx of the frame scripts: 0 when the index is undefined.
FrameIdx(index, len) ==
  CASE index.kind = "undefined" -> 0
    [] index.kind = "first" -> 0
    [] index.kind = "last" -> len - 1
    [] OTHER -> index.n

\* A finder without the strict rule: it takes the first match.
findCssFirstMatch(l, locatorIndex) ==
  IF Len(l) = 0 THEN ErrRes("not-found", 0, 0, TRUE)
  ELSE LET idx == FrameIdx(locatorIndex, Len(l))
       IN  IF idx < 0 \/ idx >= Len(l)
           THEN ErrRes("out-of-range", Len(l), idx, TRUE)
           ELSE FoundRes(l[idx + 1])

\* idxExpr === null (strict) when the index is undefined.
findCss(l, locatorIndex) ==
  IF locatorIndex.kind = "undefined"
  THEN IF Len(l) = 0 THEN ErrRes("not-found", 0, 0, TRUE)
       ELSE IF Len(l) > 1 THEN ErrRes("strict", Len(l), 0, TRUE)
       ELSE FoundRes(l[1])
  ELSE IF Len(l) = 0 THEN ErrRes("not-found", 0, 0, TRUE)
       ELSE LET idx == IdxExpr(locatorIndex, Len(l))
            IN  IF idx < 0 \/ idx >= Len(l)
                THEN ErrRes("out-of-range", Len(l), idx, TRUE)
                ELSE FoundRes(l[idx + 1])

findXpath(l, locatorIndex) ==
  LET len == Len(l)
  IN  IF locatorIndex.kind = "undefined"
      THEN IF len = 0 THEN ErrRes("not-found", 0, 0, TRUE)
           ELSE IF len > 1 THEN ErrRes("strict", len, 0, TRUE)
           ELSE FoundRes(l[1])
      ELSE IF len = 0 THEN ErrRes("not-found", 0, 0, TRUE)
           ELSE LET idx == IdxExpr(locatorIndex, len)
                IN  IF idx < 0 \/ idx >= len
                    THEN ErrRes("out-of-range", len, idx, TRUE)
                    ELSE FoundRes(l[idx + 1])

getEl(l, locatorIndex, useXPath) ==
  IF useXPath THEN findXpath(l, locatorIndex) ELSE findCss(l, locatorIndex)

\* ------------------------------------------------- page-level read scripts
buildStrictTextContentExpression(l) ==
  IF Len(l) = 0 THEN ErrRes("not-found", 0, 0, TRUE)
  ELSE IF Len(l) > 1 THEN ErrRes("strict", Len(l), 0, TRUE)
  ELSE FoundRes(l[1])

buildTextContentWithIndexExpression(l, index) ==
  IF Len(l) = 0 THEN ErrRes("not-found", 0, 0, TRUE)
  ELSE LET idx == IdxExpr(index, Len(l))
       IN  IF idx < 0 \/ idx >= Len(l)
           THEN ErrRes("out-of-range", Len(l), idx, TRUE)
           ELSE FoundRes(l[idx + 1])

buildStrictTextContentExpressionXPath(l) ==
  IF Len(l) = 0 THEN ErrRes("not-found", 0, 0, TRUE)
  ELSE IF Len(l) > 1 THEN ErrRes("strict", Len(l), 0, TRUE)
  ELSE FoundRes(l[1])

buildTextContentWithIndexExpressionXPath(l, index) ==
  LET len == Len(l)
  IN  IF len = 0 THEN ErrRes("not-found", 0, 0, TRUE)
      ELSE LET idx == IdxExpr(index, len)
           IN  IF idx < 0 \/ idx >= len
               THEN ErrRes("out-of-range", len, idx, TRUE)
               ELSE FoundRes(l[idx + 1])

buildStrictGetAttributeExpression(l) ==
  IF Len(l) = 0 THEN ErrRes("not-found", 0, 0, TRUE)
  ELSE IF Len(l) > 1 THEN ErrRes("strict", Len(l), 0, TRUE)
  ELSE FoundRes(l[1])

buildGetAttributeWithIndexExpression(l, index) ==
  IF Len(l) = 0 THEN ErrRes("not-found", 0, 0, TRUE)
  ELSE LET idx == IdxExpr(index, Len(l))
       IN  IF idx < 0 \/ idx >= Len(l)
           THEN ErrRes("out-of-range", Len(l), idx, TRUE)
           ELSE FoundRes(l[idx + 1])

buildStrictGetAttributeExpressionXPath(l) ==
  IF Len(l) = 0 THEN ErrRes("not-found", 0, 0, TRUE)
  ELSE IF Len(l) > 1 THEN ErrRes("strict", Len(l), 0, TRUE)
  ELSE FoundRes(l[1])

buildGetAttributeWithIndexExpressionXPath(l, index) ==
  LET len == Len(l)
  IN  IF len = 0 THEN ErrRes("not-found", 0, 0, TRUE)
      ELSE LET idx == IdxExpr(index, len)
           IN  IF idx < 0 \/ idx >= len
               THEN ErrRes("out-of-range", len, idx, TRUE)
               ELSE FoundRes(l[idx + 1])

\* The script getTextContent / getAttribute picks.
TextExpr(l, useXPath, index) ==
  IF index.kind # "undefined"
  THEN IF useXPath THEN buildTextContentWithIndexExpressionXPath(l, ZeroToFirst(index))
       ELSE buildTextContentWithIndexExpression(l, ZeroToFirst(index))
  ELSE IF useXPath THEN buildStrictTextContentExpressionXPath(l)
       ELSE buildStrictTextContentExpression(l)

AttrExpr(l, useXPath, index) ==
  IF index.kind # "undefined"
  THEN IF useXPath THEN buildGetAttributeWithIndexExpressionXPath(l, ZeroToFirst(index))
       ELSE buildGetAttributeWithIndexExpression(l, ZeroToFirst(index))
  ELSE IF useXPath THEN buildStrictGetAttributeExpressionXPath(l)
       ELSE buildStrictGetAttributeExpression(l)

\* ----------------------------------------------------- element state scripts
\* stateCheck of isVisible / isDisabled / isEditable / isSelected on node el;
\* chk is the set of checked inputs, sel the set of selected option positions.
StateCheck(verb, el, chk, sel) ==
  CASE verb = "isVisible" -> ~Hidden(el)
    [] verb = "isDisabled" -> disabled(el)
    [] verb = "isEditable" ->
         IF tagName(el) \in {"INPUT", "TEXTAREA"} THEN ~disabled(el) /\ ~readOnly(el)
         ELSE isContentEditable(el)
    [] verb = "isSelected" ->
         IF tagName(el) = "INPUT" /\ type(el) \in {"checkbox", "radio"} THEN el \in chk
         ELSE IF tagName(el) = "SELECT" THEN sel # {}
         ELSE FALSE

buildElementStateExpression(l, locatorIndex, useXPath) ==
  getEl(l, locatorIndex, useXPath)

buildElementStateInner(l, locatorIndex, useXPath) ==
  getEl(l, locatorIndex, useXPath)

\* ------------------------------------------------------- <select> semantics
\* SelectOption: { label } | { value } | { index }.
ByLabel(lbl) == [by |-> "label", label |-> lbl, value |-> "", index |-> 0]
ByValue(v) == [by |-> "value", label |-> <<>>, value |-> v, index |-> 0]
ByIndex(i) == [by |-> "index", label |-> <<>>, value |-> "", index |-> i]

\* HTMLOptionElement.selected = b on option position i (1-based) of a select
\* whose selected positions are sel: a single-valued select keeps one option
\* selected, and falls back to its first option when none is left.
SetSelected(sel, i, b, mult) ==
  IF b THEN (IF mult THEN sel \cup {i} ELSE {i})
  ELSE LET s == sel \ {i}
       IN  IF ~mult /\ s = {} THEN {1} ELSE s

\* HTMLSelectElement.selectedIndex = n (0-based).
SetSelectedIndex(n) == IF n >= 0 /\ n < NOpts THEN {n + 1} ELSE {}

\* for (i = 0; i < opts.length; i++) if (opts[i].textContent.trim() === label) { ...; break; }
RECURSIVE LabelLoop(_, _)
LabelLoop(i, label) ==
  IF i > NOpts THEN 0
  ELSE IF trim(Options[i].textContent) = label THEN i
  ELSE LabelLoop(i + 1, label)

\* for (i = 0; i < opts.length; i++) if (opts[i].value === value) { ...; break; }
RECURSIVE ValueLoop(_, _)
ValueLoop(i, v) ==
  IF i > NOpts THEN 0
  ELSE IF Options[i].value = v THEN i
  ELSE ValueLoop(i + 1, v)

\* HTMLSelectElement.value = v: the first option with that value, else none.
SetValue(v) == IF ValueLoop(1, v) = 0 THEN {} ELSE {ValueLoop(1, v)}

\* A multi-select script without its clearing loop.
ClearNothing(j, sel, mult) == sel

\* for (j = 0; j < opts.length; j++) opts[j].selected = false;
RECURSIVE ClearLoop(_, _, _)
ClearLoop(j, sel, mult) ==
  IF j > NOpts THEN sel ELSE ClearLoop(j + 1, SetSelected(sel, j, FALSE, mult), mult)

\* One entry of setParts applied to the selection.
SetPart(sel, opt, mult) ==
  IF opt.by = "label"
  THEN LET i == LabelLoop(1, opt.label)
       IN  IF i = 0 THEN sel ELSE SetSelected(sel, i, TRUE, mult)
  ELSE IF opt.by = "value"
  THEN LET i == ValueLoop(1, opt.value)
       IN  IF i = 0 THEN sel ELSE SetSelected(sel, i, TRUE, mult)
  ELSE IF opt.index >= 0 /\ opt.index < NOpts
       THEN SetSelected(sel, opt.index + 1, TRUE, mult)
       ELSE sel

RECURSIVE SetParts(_, _, _)
SetParts(sel, options, mult) ==
  IF options = <<>> THEN sel
  ELSE SetParts(SetPart(sel, Head(options), mult), Tail(options), mult)

\* setOption of the single-option script.
SetOption(sel, opt) ==
  IF opt.by = "label"
  THEN LET i == LabelLoop(1, opt.label)
       IN  IF i = 0 THEN sel ELSE SetSelectedIndex(i - 1)
  ELSE IF opt.by = "value" THEN SetValue(opt.value)
  ELSE SetSelectedIndex(opt.index)

\* A select script without the test of the tag name.
SelectAnyElement(l, locatorIndex, useXPath) ==
  LET el == getEl(l, locatorIndex, useXPath)
  IN  IF el.error # "none" THEN el
      ELSE [FoundRes(el.el) EXCEPT !.act = "ok"]

\* Result object of the select scripts; the selection they leave is SelectEffect.
buildSelectOptionInnerBlock(l, locatorIndex, useXPath) ==
  LET el == getEl(l, locatorIndex, useXPath)
  IN  IF el.error # "none" THEN el
      ELSE IF tagName(el.el) # "SELECT" THEN ErrRes("not-select", 0, 0, TRUE)
      ELSE [FoundRes(el.el) EXCEPT !.act = "ok"]

buildSelectOptionMultiInnerBlock(l, locatorIndex, useXPath) ==
  LET el == getEl(l, locatorIndex, useXPath)
  IN  IF el.error # "none" THEN el
      ELSE IF tagName(el.el) # "SELECT" THEN ErrRes("not-select", 0, 0, TRUE)
      ELSE [FoundRes(el.el) EXCEPT !.act = "ok"]

\* A select() argument: one SelectOption (array FALSE, opts of length 1) or an
\* array of them.
One(opt) == [array |-> FALSE, opts |-> <<opt>>]
Many(opts) == [array |-> TRUE, opts |-> opts]
IsArray(option) == option.array

SelectScript(l, locatorIndex, option, useXPath) ==
  IF IsArray(option) THEN buildSelectOptionMultiInnerBlock(l, locatorIndex, useXPath)
  ELSE buildSelectOptionInnerBlock(l, locatorIndex, useXPath)

\* Selection after the script ran to its "return { ok: true }".
SelectEffect(sel, option, mult) ==
  IF IsArray(option) THEN SetParts(ClearLoop(1, sel, mult), option.opts, mult)
  ELSE SetOption(sel, option.opts[1])

\* ------------------------------------------------------ check / uncheck
\* A check script that asks for a click whatever the state.
CheckUncheckAlwaysClick(l, locatorIndex, checked, useXPath, chk) ==
  LET el == getEl(l, locatorIndex, useXPath)
  IN  IF el.error # "none" THEN el
      ELSE IF tagName(el.el) # "INPUT" THEN ErrRes("not-checkable", 0, 0, TRUE)
      ELSE IF type(el.el) \notin {"checkbox", "radio"}
      THEN ErrRes("not-checkable", 0, 0, TRUE)
      ELSE [FoundRes(el.el) EXCEPT !.act = "click"]

\* Page level: { ok: true } when the state matches, else the center to click.
buildCheckUncheckGetActionInnerBlock(l, locatorIndex, checked, useXPath, chk) ==
  LET el == getEl(l, locatorIndex, useXPath)
  IN  IF el.error # "none" THEN el
      ELSE IF tagName(el.el) # "INPUT" THEN ErrRes("not-checkable", 0, 0, TRUE)
      ELSE IF type(el.el) \notin {"checkbox", "radio"}
      THEN ErrRes("not-checkable", 0, 0, TRUE)
      ELSE IF (IF checked THEN el.el \notin chk ELSE el.el \in chk)
      THEN [FoundRes(el.el) EXCEPT !.act = "click"]
      ELSE [FoundRes(el.el) EXCEPT !.act = "ok"]

\* Frame level: writes el.checked and fires synthetic change and click.
buildCheckUncheckInnerBlock(l, locatorIndex, useXPath) ==
  LET el == getEl(l, locatorIndex, useXPath)
  IN  IF el.error # "none" THEN el
      ELSE IF tagName(el.el) # "INPUT" THEN ErrRes("not-checkable", 0, 0, TRUE)
      ELSE IF type(el.el) \notin {"checkbox", "radio"}
      THEN ErrRes("not-checkable", 0, 0, TRUE)
      ELSE [FoundRes(el.el) EXCEPT !.act = "ok"]

\* Activation behaviour of a click event on an input: a checkbox toggles, a
\* radio becomes checked.
ClickActivation(chk, el) ==
  IF type(el) = "checkbox" THEN (IF el \in chk THEN chk \ {el} ELSE chk \cup {el})
  ELSE IF type(el) = "radio" THEN chk \cup {el}
  ELSE chk

\* el.checked = checked; dispatch change; dispatch click.
CheckUncheckInnerEffect(chk, el, checked) ==
  ClickActivation(IF checked THEN chk \cup {el} ELSE chk \ {el}, el)

\* ------------------------------------------------------------ frame scripts
\* ok: every iframe of the chain was found and has a contentDocument; when it
\* is not, buildFrameChainGetDocExpression throws inside the script.
buildFrameElementCenterExpression(l, index, ok) ==
  LET len == Len(l)
      idx == FrameIdx(index, len)
  IN  IF ~ok THEN ExceptionRes
      ELSE IF len = 0 THEN ErrRes("not-found", 0, 0, FALSE)
      ELSE IF len > 1 /\ index.kind = "undefined" THEN ErrRes("strict", len, 0, FALSE)
      ELSE IF idx < 0 \/ idx >= len THEN ErrRes("out-of-range", len, idx, FALSE)
      ELSE FoundRes(l[idx + 1])

buildFrameTextContentExpression(l, index, ok) ==
  LET len == Len(l)
      idx == FrameIdx(index, len)
  IN  IF ~ok THEN ExceptionRes
      ELSE IF len = 0 THEN ErrRes("not-found", 0, 0, FALSE)
      ELSE IF idx < 0 \/ idx >= len THEN ErrRes("out-of-range", len, idx, FALSE)
      ELSE FoundRes(l[idx + 1])

buildFrameGetAttributeExpression(l, index, ok) ==
  LET len == Len(l)
      idx == FrameIdx(index, len)
  IN  IF ~ok THEN ExceptionRes
      ELSE IF len = 0 THEN ErrRes("not-found", 0, 0, FALSE)
      ELSE IF idx < 0 \/ idx >= len THEN ErrRes("out-of-range", len, idx, FALSE)
      ELSE FoundRes(l[idx + 1])

buildFrameElementStateExpression(l, index, useXPath, ok) ==
  IF ~ok THEN ExceptionRes
  ELSE buildElementStateInner(l, ZeroToFirst(index), useXPath)

buildFrameSelectOptionExpression(l, option, index, useXPath, ok) ==
  IF ~ok THEN ExceptionRes
  ELSE SelectScript(l, ZeroToFirst(index), option, useXPath)

buildFrameCheckUncheckExpression(l, index, useXPath, ok) ==
  IF ~ok THEN ExceptionRes
  ELSE buildCheckUncheckInnerBlock(l, ZeroToFirst(index), useXPath)

\* ================================================================ the engine
PointerVerbs == {"click", "doubleClick", "rightClick", "hover"}
ReadVerbs == {"getTextContent", "getAttribute"}
StateVerbs == {"isVisible", "isDisabled", "isEditable", "isSelected"}
CheckVerbs == {"check", "uncheck"}
Verbs == PointerVerbs \cup ReadVerbs \cup StateVerbs \cup CheckVerbs
           \cup {"dragAndDrop", "type", "select"}
Scopes == {"page", "frame"}

Indexes == {Undefined, First, Last} \cup {Nth(n) : n \in -1..MaxEls}

Typed == <<"a", "b", "c", "d">>
Texts == {SubSeq(Typed, 1, k) : k \in 0..MaxText}

NoOption == Many(<<>>)
NoCall ==
  [verb |-> "none", scope |-> "page", selector |-> <<>>, index |-> Undefined,
   target |-> <<>>, tindex |-> Undefined, text |-> <<>>, option |-> NoOption]

NoRet == [kind |-> "none", s |-> 0, b |-> FALSE]
Void == [kind |-> "void", s |-> 0, b |-> FALSE]
\* A string result: the text or attribute of node el (0 is the empty string).
Str(el) == [kind |-> "string", s |-> el, b |-> FALSE]
Bool(b) == [kind |-> "boolean", s |-> 0, b |-> b]

\* The nodes of a set in document order.
RECURSIVE InOrder(_)
InOrder(S) ==
  IF S = {} THEN <<>>
  ELSE LET m == CHOOSE x \in S : \A y \in S : x <= y
       IN  <<m>> \o InOrder(S \ {m})

Range(l) == {l[i] : i \in 1..Len(l)}

\* ------------------------------------------------------- waits and dialogs
\* const pollMs = 200
pollMs == 200

NoPattern == [glob |-> FALSE, parts |-> <<>>]
NoWait == [kind |-> "none", timeoutMs |-> 0, pattern |-> NoPattern]

\* The URL the browser starts on.
StartUrl == <<"a">>

\* A dialog handler: null, or a function that returns a decision, returns a
\* promise that resolves to one later, throws, or never settles.
Null == [kind |-> "null", accept |-> FALSE, promptText |-> ""]
Returns(a, t) == [kind |-> "returns", accept |-> a, promptText |-> t]
Resolves(a, t) == [kind |-> "resolves", accept |-> a, promptText |-> t]
Throws == [kind |-> "throws", accept |-> FALSE, promptText |-> ""]
Never == [kind |-> "never", accept |-> FALSE, promptText |-> ""]

\* A default that dismisses.
dismissingDialogHandler == Returns(FALSE, "")

\* const defaultDialogHandler = () => ({ accept: true, promptText: '' })
defaultDialogHandler == Returns(TRUE, "")

Sessions == 1..MaxSessions
\* The page targets (tabs) of the browser, by id.
Targets == 1..MaxTabs
\* Per session: the number of dialog events delivered, what getHandler()
\* returned at the last one, and the handler that was called.
NoPending == [n |-> 0, installed |-> Null, handler |-> Null]

\* How a test writes a selector: a shorthand attr = "value" (name, blanks
\* around '=', the two quotes, the value as tokens and the blanks between
\* them) or another string (body), with pad blanks at both ends.
NoInput ==
  [kind |-> "none", name |-> <<>>, sp |-> <<>>, q1 |-> <<>>, q2 |-> <<>>,
   tokens |-> <<>>, gap |-> <<>>, pad |-> <<>>, body |-> <<>>]
NoResolution == [done |-> FALSE, input |-> NoInput, raw |-> <<>>, out |-> <<>>]

\* No traversal of the frame chain evaluated yet.
NoDoc == [kind |-> "none", path |-> <<>>]

Init ==
  /\ list = <<>>
  /\ tlist = <<>>
  /\ frameOk = TRUE
  /\ frameOrigin = NoPoint
  /\ checkedSet = {}
  /\ selected = {}
  /\ multiple = TRUE
  /\ call = NoCall
  /\ pc = "idle"
  /\ value = NullRes
  /\ from = NoPoint
  /\ to = NoPoint
  /\ events = <<>>
  /\ domEvents = <<>>
  /\ thrown = NoError
  /\ ret = NoRet
  /\ wcall = NoWait
  /\ wpc = "idle"
  /\ now = 0
  /\ started = 0
  /\ deadline = 0
  /\ resumeAt = 0
  /\ evals = 0
  /\ sleeps = 0
  /\ lastEval = 0
  /\ endedAt = 0
  /\ url = StartUrl
  /\ tabs = {1}
  /\ initialIds = {}
  /\ newTab = 0
  /\ dialogHandler = Null
  /\ current = 1
  /\ open = {1}
  /\ armed = {1}
  /\ dlg = [s \in Sessions |-> "none"]
  /\ pending = [s \in Sessions |-> NoPending]
  /\ resolved = [s \in Sessions |-> <<>>]
  /\ handles = {}
  /\ left = [s \in Sessions |-> 0]
  /\ inflight = [s \in Sessions |-> <<>>]
  /\ resolution = NoResolution
  /\ frames = <<>>
  /\ doc = NoDoc
  /\ tabOf = [s \in Sessions |-> IF s = 1 THEN 1 ELSE 0]
  /\ opened = [t \in Targets |-> 0]
  /\ sent = [s \in Sessions |-> 0]
  /\ made = 0
  /\ lost = {}
  /\ closed = FALSE
  /\ gpc = "idle"
  /\ gurl = StartUrl
  /\ gotos = 0
  /\ navigated = "pending"
  /\ fired = FALSE
  /\ queue = <<>>

\* ------------------------------------------------------------ the page moves
\* The positions at which a call still reads the page.
Reading == {"invoked", "settle", "invoked2", "settle2"}

\* A node starts or stops matching the call's selector.
Mutate ==
  /\ pc \in Reading \cup {"idle"}
  /\ \E e \in 1..MaxEls :
       list' = InOrder(IF e \in Range(list) THEN Range(list) \ {e}
                       ELSE Range(list) \cup {e})
  /\ UNCHANGED <<tlist, frameOk, frameOrigin, checkedSet, selected, multiple, callVars>>
  /\ UNCHANGED <<waitVars, dlgVars, selVars, extVars>>

\* A node starts or stops matching the drag target selector.
MutateTarget ==
  /\ call.verb = "dragAndDrop"
  /\ pc \in Reading
  /\ \E e \in 1..MaxEls :
       tlist' = InOrder(IF e \in Range(tlist) THEN Range(tlist) \ {e}
                        ELSE Range(tlist) \cup {e})
  /\ UNCHANGED <<list, frameOk, frameOrigin, checkedSet, selected, multiple, callVars>>
  /\ UNCHANGED <<waitVars, dlgVars, selVars, extVars>>

\* An iframe of the chain goes away, comes back, or is laid out elsewhere.
FrameOrigins == {NoPoint, [x |-> 7, y |-> 0]}

FrameChange ==
  /\ call.scope = "frame"
  /\ pc \in Reading \cup {"dispatch"}
  /\ \E ok \in BOOLEAN, o \in FrameOrigins :
       /\ <<ok, o>> # <<frameOk, frameOrigin>>
       /\ frameOk' = ok
       /\ frameOrigin' = o
  /\ UNCHANGED <<list, tlist, checkedSet, selected, multiple, callVars>>
  /\ UNCHANGED <<waitVars, dlgVars, selVars, extVars>>

\* ------------------------------------------------------------- input events
MouseEvent(t, p, button, clickCount) ==
  [type |-> t, x |-> p.x, y |-> p.y, button |-> button, clickCount |-> clickCount,
   text |-> ""]
KeyEvent(t, char) ==
  [type |-> t, x |-> 0, y |-> 0, button |-> "none", clickCount |-> 0, text |-> char]

PressRelease(p, button, clickCount) ==
  << MouseEvent("mousePressed", p, button, clickCount),
     MouseEvent("mouseReleased", p, button, clickCount) >>

\* A loop that sends each character's key-up before its key-down.
RECURSIVE KeysUpFirst(_)
KeysUpFirst(text) ==
  IF text = <<>> THEN <<>>
  ELSE <<KeyEvent("keyUp", Head(text)), KeyEvent("keyDown", Head(text))>>
         \o KeysUpFirst(Tail(text))

\* for (const char of text) { keyDown; keyUp }
RECURSIVE Keys(_)
Keys(text) ==
  IF text = <<>> THEN <<>>
  ELSE <<KeyEvent("keyDown", Head(text)), KeyEvent("keyUp", Head(text))>>
         \o Keys(Tail(text))

\* The Input.dispatch* commands a verb issues once its points are known.
Commands(c, p, q) ==
  CASE c.verb = "click" -> PressRelease(p, "left", 1)
    [] c.verb = "doubleClick" -> PressRelease(p, "left", 2)
    [] c.verb = "rightClick" -> PressRelease(p, "right", 1)
    [] c.verb = "hover" -> <<MouseEvent("mouseMoved", p, "none", 0)>>
    [] c.verb = "dragAndDrop" ->
         << MouseEvent("mousePressed", p, "left", 1),
            MouseEvent("mouseMoved", q, "none", 0),
            MouseEvent("mouseReleased", q, "left", 1) >>
    [] c.verb = "type" -> PressRelease(p, "left", 1) \o Keys(c.text)
    [] c.verb \in CheckVerbs -> PressRelease(p, "left", 1)
    [] OTHER -> <<>>

\* The node whose box has its center at point p of the page's viewport (0 when
\* none): nodes reached through a frame handle are laid out inside the frame.
ElAt(p, scope, origin) ==
  LET o == IF scope = "frame" THEN origin ELSE NoPoint
      hit == {e \in 1..MaxEls :
                /\ getCenter(Rect(e)).x + o.x = p.x
                /\ getCenter(Rect(e)).y + o.y = p.y}
  IN  IF hit = {} THEN 0 ELSE CHOOSE e \in hit : TRUE

\* The browser's reaction to a mouse event e that follows the events evs: a left
\* button released where it was pressed is a click on the node at that point.
InputEffect(chk, evs, e, scope, origin) ==
  IF /\ e.type = "mouseReleased"
     /\ e.button = "left"
     /\ evs # <<>>
     /\ evs[Len(evs)].type = "mousePressed"
     /\ evs[Len(evs)].x = e.x
     /\ evs[Len(evs)].y = e.y
     /\ ElAt(e, scope, origin) # 0
  THEN ClickActivation(chk, ElAt(e, scope, origin))
  ELSE chk

\* ------------------------------------------------------------------ calls
TIndexes == {Undefined, Last}
OptionArgs == {One(ByIndex(1)), Many(<<ByValue("a"), ByLabel(<<"B">>)>>)}

\* The test calls one verb of VS, of the page (scope "page") or of a frame
\* handle, with an index of Idxs, a select with one of the arguments Opts.
InvokeOf(VS, Idxs, Opts) ==
  /\ pc = "idle"
  /\ \E v \in VS, sc \in Scopes, s \in Selectors, i \in Idxs :
     \E ti \in IF v = "dragAndDrop" THEN TIndexes ELSE {Undefined} :
     \E t \in IF v = "type" THEN Texts ELSE {<<>>} :
     \E o \in IF v = "select" THEN Opts ELSE {NoOption} :
       call' = [verb |-> v, scope |-> sc, selector |-> s, index |-> i,
                target |-> IF v = "dragAndDrop" THEN CssSel ELSE <<>>,
                tindex |-> ti, text |-> t, option |-> o]
  /\ pc' = "invoked"
  /\ UNCHANGED <<domVars, value, from, to, events, domEvents, thrown, ret>>
  /\ UNCHANGED <<waitVars, dlgVars, selVars, extVars>>

Invoke == InvokeOf(Verbs, Indexes, OptionArgs)

\* The call returned or threw; the test ends and the next one loads the page anew.
Return ==
  /\ pc \in {"done", "failed"}
  /\ list' = <<>>
  /\ tlist' = <<>>
  /\ frameOk' = TRUE
  /\ frameOrigin' = NoPoint
  /\ checkedSet' = {}
  /\ selected' = {}
  /\ multiple' = TRUE
  /\ call' = NoCall
  /\ pc' = "idle"
  /\ value' = NullRes
  /\ from' = NoPoint
  /\ to' = NoPoint
  /\ events' = <<>>
  /\ domEvents' = <<>>
  /\ thrown' = NoError
  /\ ret' = NoRet
  /\ UNCHANGED <<waitVars, dlgVars, selVars, extVars>>

\* Which element of the call a getElementCenter is resolving.
Second == pc \in {"invoked2", "settle2"}
CurList == IF Second THEN tlist ELSE list
CurSelector == IF Second THEN call.target ELSE call.selector
CurIndex == IF Second THEN call.tindex ELSE call.index

\* ------------------------------------------------------- page-level verbs
\* getElementCenter up to its 100 ms sleep: the first measurement.
Measure ==
  /\ call.scope = "page"
  /\ call.verb \in PointerVerbs \cup {"dragAndDrop"}
  /\ pc \in {"invoked", "invoked2"}
  /\ LET v == FindExpr(CurList, isXPath(CurSelector), CurIndex)
     IN  /\ value' = v
         /\ IF v.kind # "obj"
            THEN /\ thrown' = OtherError("locator-failed", CurSelector)
                 /\ pc' = "failed"
            ELSE IF v.error # "none"
            THEN /\ thrown' = throwLocatorError(v, CurSelector)
                 /\ pc' = "failed"
            ELSE /\ thrown' = thrown
                 /\ pc' = IF Second THEN "settle2" ELSE "settle"
  /\ UNCHANGED <<domVars, call, from, to, events, domEvents, ret>>
  /\ UNCHANGED <<waitVars, dlgVars, selVars, extVars>>

\* getElementCenter after its sleep: the second measurement and the center.
ReMeasure ==
  /\ call.scope = "page"
  /\ pc \in {"settle", "settle2"}
  /\ LET res2 == IF isXPath(CurSelector)
                 THEN buildGetRectAgainXPath(CurList,
                        IF CurIndex.kind = "undefined" THEN Undefined
                        ELSE ZeroToFirst(CurIndex))
                 ELSE GetRectAgainCss(CurList, CurIndex)
         rect == IF res2.kind \in {"obj", "null"} THEN res2 ELSE value
     IN  IF rect.kind = "null"
         THEN /\ thrown' = OtherError("TypeError", <<>>)
              /\ pc' = "failed"
              /\ UNCHANGED <<from, to>>
         ELSE /\ thrown' = thrown
              /\ IF Second
                 THEN /\ to' = getCenter(Rect(rect.el))
                      /\ from' = from
                      /\ pc' = "dispatch"
                 ELSE /\ from' = getCenter(Rect(rect.el))
                      /\ to' = to
                      /\ pc' = IF call.verb = "dragAndDrop" THEN "invoked2"
                                ELSE "dispatch"
  /\ UNCHANGED <<domVars, call, value, events, domEvents, ret>>
  /\ UNCHANGED <<waitVars, dlgVars, selVars, extVars>>

\* type() up to its first dispatch: one measurement, no second one.
TypeMeasure ==
  /\ call.scope = "page"
  /\ call.verb = "type"
  /\ pc = "invoked"
  /\ LET v == FindExpr(list, isXPath(call.selector), call.index)
     IN  /\ value' = v
         /\ IF v.kind # "obj"
            THEN /\ thrown' = OtherError("locator-failed", call.selector)
                 /\ pc' = "failed"
                 /\ from' = from
            ELSE IF v.error # "none"
            THEN /\ thrown' = throwLocatorError(v, call.selector)
                 /\ pc' = "failed"
                 /\ from' = from
            ELSE /\ thrown' = thrown
                 /\ from' = getCenter(Rect(v.el))
                 /\ pc' = "dispatch"
  /\ UNCHANGED <<domVars, call, to, events, domEvents, ret>>
  /\ UNCHANGED <<waitVars, dlgVars, selVars, extVars>>

\* A dispatch that presses the mouse on the drag source before the target is
\* resolved.
DispatchEarly ==
  /\ pc \in {"dispatch", "invoked2"}
  /\ LET cmds == Commands(call, from, to)
         k == Len(events) + 1
     IN  /\ k <= Len(cmds)
         /\ pc = "invoked2" => k = 1
         /\ events' = Append(events, cmds[k])
         /\ checkedSet' = InputEffect(checkedSet, events, cmds[k], call.scope,
                                       frameOrigin)
         /\ pc' = IF pc = "invoked2" THEN pc
                   ELSE IF k = Len(cmds) THEN "done" ELSE "dispatch"
         /\ ret' = IF pc' = "done" THEN Void ELSE ret
  /\ UNCHANGED <<list, tlist, frameOk, frameOrigin, selected, multiple, call, value,
                 from, to, domEvents, thrown>>
  /\ UNCHANGED <<waitVars, dlgVars, selVars, extVars>>

\* One Input.dispatchMouseEvent / dispatchKeyEvent of the verb, and what the
\* browser does with it.
Dispatch ==
  /\ pc = "dispatch"
  /\ LET cmds == Commands(call, from, to)
         k == Len(events) + 1
     IN  IF k > Len(cmds)
         THEN /\ pc' = "done"
              /\ ret' = Void
              /\ UNCHANGED <<events, checkedSet>>
         ELSE /\ events' = Append(events, cmds[k])
              /\ checkedSet' = InputEffect(checkedSet, events, cmds[k], call.scope,
                                            frameOrigin)
              /\ pc' = IF k = Len(cmds) THEN "done" ELSE "dispatch"
              /\ ret' = IF k = Len(cmds) THEN Void ELSE ret
  /\ UNCHANGED <<list, tlist, frameOk, frameOrigin, selected, multiple, call, value,
                 from, to, domEvents, thrown>>
  /\ UNCHANGED <<waitVars, dlgVars, selVars, extVars>>

\* getTextContent / getAttribute of the page.
Read ==
  /\ call.scope = "page"
  /\ call.verb \in ReadVerbs
  /\ pc = "invoked"
  /\ LET v == IF call.verb = "getTextContent"
              THEN TextExpr(list, isXPath(call.selector), call.index)
              ELSE AttrExpr(list, isXPath(call.selector), call.index)
     IN  /\ value' = v
         /\ IF v.kind # "obj"
            THEN /\ thrown' = OtherError("locator-failed", call.selector)
                 /\ pc' = "failed"
                 /\ ret' = ret
            ELSE IF v.error # "none"
            THEN /\ thrown' = throwLocatorError(v, call.selector)
                 /\ pc' = "failed"
                 /\ ret' = ret
            ELSE /\ thrown' = thrown
                 /\ pc' = "done"
                 /\ ret' = Str(v.el)
  /\ UNCHANGED <<domVars, call, from, to, events, domEvents>>
  /\ UNCHANGED <<waitVars, dlgVars, selVars, extVars>>

\* isVisible / isDisabled / isEditable / isSelected of the page.
State ==
  /\ call.scope = "page"
  /\ call.verb \in StateVerbs
  /\ pc = "invoked"
  /\ LET v == buildElementStateExpression(list, ZeroToFirst(call.index),
                                          isXPath(call.selector))
     IN  /\ value' = v
         /\ IF v.kind # "obj"
            THEN /\ thrown' = thrown
                 /\ pc' = "done"
                 /\ ret' = Bool(FALSE)
            ELSE IF v.error # "none"
            THEN /\ thrown' = throwLocatorError(v, call.selector)
                 /\ pc' = "failed"
                 /\ ret' = ret
            ELSE /\ thrown' = thrown
                 /\ pc' = "done"
                 /\ ret' = Bool(StateCheck(call.verb, v.el, checkedSet, selected))
  /\ UNCHANGED <<domVars, call, from, to, events, domEvents>>
  /\ UNCHANGED <<waitVars, dlgVars, selVars, extVars>>

\* select() of the page: the script picks the options and fires change.
select ==
  /\ call.scope = "page"
  /\ call.verb = "select"
  /\ pc = "invoked"
  /\ LET v == SelectScript(list, ZeroToFirst(call.index), call.option,
                           isXPath(call.selector))
     IN  /\ value' = v
         /\ IF v.kind # "obj"
            THEN /\ thrown' = OtherError("select-failed", call.selector)
                 /\ pc' = "failed"
                 /\ UNCHANGED <<selected, domEvents, ret>>
            ELSE IF v.error = "not-select"
            THEN /\ thrown' = OtherError("not-select", call.selector)
                 /\ pc' = "failed"
                 /\ UNCHANGED <<selected, domEvents, ret>>
            ELSE IF v.error # "none"
            THEN /\ thrown' = throwLocatorError(v, call.selector)
                 /\ pc' = "failed"
                 /\ UNCHANGED <<selected, domEvents, ret>>
            ELSE /\ thrown' = thrown
                 /\ selected' = SelectEffect(selected, call.option, multiple)
                 /\ domEvents' = Append(domEvents, "change")
                 /\ pc' = "done"
                 /\ ret' = Void
  /\ UNCHANGED <<list, tlist, frameOk, frameOrigin, checkedSet, multiple, call, from,
                 to, events>>
  /\ UNCHANGED <<waitVars, dlgVars, selVars, extVars>>

\* check() / uncheck() of the page up to the first dispatch.
check ==
  /\ call.scope = "page"
  /\ call.verb \in CheckVerbs
  /\ pc = "invoked"
  /\ LET v == buildCheckUncheckGetActionInnerBlock(list, ZeroToFirst(call.index),
                 call.verb = "check", isXPath(call.selector), checkedSet)
     IN  /\ value' = v
         /\ IF v.kind # "obj"
            THEN /\ thrown' = OtherError("check-failed", call.selector)
                 /\ pc' = "failed"
                 /\ UNCHANGED <<from, ret>>
            ELSE IF v.error = "not-checkable"
            THEN /\ thrown' = OtherError("not-checkable", call.selector)
                 /\ pc' = "failed"
                 /\ UNCHANGED <<from, ret>>
            ELSE IF v.error # "none"
            THEN /\ thrown' = throwLocatorError(v, call.selector)
                 /\ pc' = "failed"
                 /\ UNCHANGED <<from, ret>>
            ELSE IF v.act = "click"
            THEN /\ thrown' = thrown
                 /\ from' = getCenter(Rect(v.el))
                 /\ pc' = "dispatch"
                 /\ ret' = ret
            ELSE /\ thrown' = thrown
                 /\ from' = from
                 /\ pc' = "done"
                 /\ ret' = Void
  /\ UNCHANGED <<domVars, call, to, events, domEvents>>
  /\ UNCHANGED <<waitVars, dlgVars, selVars, extVars>>

\* ------------------------------------------------------ frame-handle verbs
\* page.evaluate of a frame script: undefined when the script threw.
\* getFrameElementCenter, for the source (and for the target of a drag).
getFrameElementCenter ==
  /\ call.scope = "frame"
  /\ call.verb \in PointerVerbs \cup {"dragAndDrop", "type"}
  /\ pc \in {"invoked", "invoked2"}
  /\ LET v == buildFrameElementCenterExpression(CurList, CurIndex, frameOk)
     IN  /\ value' = v
         /\ IF v.kind # "obj"
            THEN /\ thrown' = OtherError("frame-locator-failed", CurSelector)
                 /\ pc' = "failed"
                 /\ UNCHANGED <<from, to>>
            ELSE IF v.error # "none"
            THEN /\ thrown' = throwLocatorError(v, CurSelector)
                 /\ pc' = "failed"
                 /\ UNCHANGED <<from, to>>
            ELSE /\ thrown' = thrown
                 /\ IF Second
                    THEN /\ to' = getCenter(Rect(v.el))
                         /\ from' = from
                         /\ pc' = "dispatch"
                    ELSE /\ from' = getCenter(Rect(v.el))
                         /\ to' = to
                         /\ pc' = CASE call.verb = "dragAndDrop" -> "invoked2"
                                     [] call.verb = "hover" -> "dispatch"
                                     [] OTHER -> "settle"
  /\ UNCHANGED <<domVars, call, events, domEvents, ret>>
  /\ UNCHANGED <<waitVars, dlgVars, selVars, extVars>>

\* The 100 ms sleep of frameClick, frameDoubleClick and frameRightClick.
frameSettle ==
  /\ call.scope = "frame"
  /\ pc = "settle"
  /\ pc' = "dispatch"
  /\ UNCHANGED <<domVars, call, value, from, to, events, domEvents, thrown, ret>>
  /\ UNCHANGED <<waitVars, dlgVars, selVars, extVars>>

\* frameGetTextContent / frameGetAttribute.
frameRead ==
  /\ call.scope = "frame"
  /\ call.verb \in ReadVerbs
  /\ pc = "invoked"
  /\ LET v == IF call.verb = "getTextContent"
              THEN buildFrameTextContentExpression(list, call.index, frameOk)
              ELSE buildFrameGetAttributeExpression(list, call.index, frameOk)
     IN  /\ value' = v
         /\ IF v.kind # "obj"
            THEN /\ thrown' = thrown
                 /\ pc' = "done"
                 /\ ret' = Str(0)
            ELSE IF v.error # "none"
            THEN /\ thrown' = throwLocatorError(v, call.selector)
                 /\ pc' = "failed"
                 /\ ret' = ret
            ELSE /\ thrown' = thrown
                 /\ pc' = "done"
                 /\ ret' = Str(v.el)
  /\ UNCHANGED <<domVars, call, from, to, events, domEvents>>
  /\ UNCHANGED <<waitVars, dlgVars, selVars, extVars>>

\* frameIsVisible / frameIsDisabled / frameIsEditable / frameIsSelected.
frameState ==
  /\ call.scope = "frame"
  /\ call.verb \in StateVerbs
  /\ pc = "invoked"
  /\ LET v == buildFrameElementStateExpression(list, call.index,
                                               isXPath(call.selector), frameOk)
     IN  /\ value' = v
         /\ IF v.kind # "obj"
            THEN /\ thrown' = thrown
                 /\ pc' = "done"
                 /\ ret' = Bool(FALSE)
            ELSE IF v.error # "none"
            THEN /\ thrown' = throwLocatorError(v, call.selector)
                 /\ pc' = "failed"
                 /\ ret' = ret
            ELSE /\ thrown' = thrown
                 /\ pc' = "done"
                 /\ ret' = Bool(StateCheck(call.verb, v.el, checkedSet, selected))
  /\ UNCHANGED <<domVars, call, from, to, events, domEvents>>
  /\ UNCHANGED <<waitVars, dlgVars, selVars, extVars>>

frameSelect ==
  /\ call.scope = "frame"
  /\ call.verb = "select"
  /\ pc = "invoked"
  /\ LET v == buildFrameSelectOptionExpression(list, call.option, call.index,
                                               isXPath(call.selector), frameOk)
     IN  /\ value' = v
         /\ IF v.kind # "obj"
            THEN /\ thrown' = OtherError("select-failed", call.selector)
                 /\ pc' = "failed"
                 /\ UNCHANGED <<selected, domEvents, ret>>
            ELSE IF v.error = "not-select"
            THEN /\ thrown' = OtherError("not-select", call.selector)
                 /\ pc' = "failed"
                 /\ UNCHANGED <<selected, domEvents, ret>>
            ELSE IF v.error # "none"
            THEN /\ thrown' = throwLocatorError(v, call.selector)
                 /\ pc' = "failed"
                 /\ UNCHANGED <<selected, domEvents, ret>>
            ELSE /\ thrown' = thrown
                 /\ selected' = SelectEffect(selected, call.option, multiple)
                 /\ domEvents' = Append(domEvents, "change")
                 /\ pc' = "done"
                 /\ ret' = Void
  /\ UNCHANGED <<list, tlist, frameOk, frameOrigin, checkedSet, multiple, call, from,
                 to, events>>
  /\ UNCHANGED <<waitVars, dlgVars, selVars, extVars>>

\* frameCheck / frameUncheck: the script writes the state, no input event.
frameCheck ==
  /\ call.scope = "frame"
  /\ call.verb \in CheckVerbs
  /\ pc = "invoked"
  /\ LET v == buildFrameCheckUncheckExpression(list, call.index,
                                               isXPath(call.selector), frameOk)
     IN  /\ value' = v
         /\ IF v.kind # "obj"
            THEN /\ thrown' = OtherError("check-failed", call.selector)
                 /\ pc' = "failed"
                 /\ UNCHANGED <<checkedSet, domEvents, ret>>
            ELSE IF v.error = "not-checkable"
            THEN /\ thrown' = OtherError("not-checkable", call.selector)
                 /\ pc' = "failed"
                 /\ UNCHANGED <<checkedSet, domEvents, ret>>
            ELSE IF v.error # "none"
            THEN /\ thrown' = throwLocatorError(v, call.selector)
                 /\ pc' = "failed"
                 /\ UNCHANGED <<checkedSet, domEvents, ret>>
            ELSE /\ thrown' = thrown
                 /\ checkedSet' = CheckUncheckInnerEffect(checkedSet, v.el,
                                                          call.verb = "check")
                 /\ domEvents' = domEvents \o <<"change", "click">>
                 /\ pc' = "done"
                 /\ ret' = Void
  /\ UNCHANGED <<list, tlist, frameOk, frameOrigin, selected, multiple, call, from,
                 to, events>>
  /\ UNCHANGED <<waitVars, dlgVars, selVars, extVars>>

\* ------------------------------------------------------------ specification
Next ==
  \/ Mutate
  \/ MutateTarget
  \/ FrameChange
  \/ Invoke
  \/ Measure
  \/ ReMeasure
  \/ TypeMeasure
  \/ Dispatch
  \/ Read
  \/ State
  \/ select
  \/ check
  \/ getFrameElementCenter
  \/ frameSettle
  \/ frameRead
  \/ frameState
  \/ frameSelect
  \/ frameCheck
  \/ Return

Spec == Init /\ [][Next]_vars

TypeOK ==
  /\ pc \in {"idle", "invoked", "settle", "invoked2", "settle2", "dispatch", "done",
             "failed"}
  /\ Range(list) \subseteq 1..MaxEls
  /\ Range(tlist) \subseteq 1..MaxEls
  /\ checkedSet \subseteq 1..MaxEls
  /\ selected \subseteq 1..NOpts

\* ------------------------------------------- checkboxes: the specification
\* A script of the page (or an earlier action of the test) sets or clears the
\* checked flag of an input.
Toggle ==
  /\ pc \in Reading \cup {"idle"}
  /\ \E e \in {x \in 1..MaxEls : tagName(x) = "INPUT"} :
       checkedSet' = IF e \in checkedSet THEN checkedSet \ {e}
                     ELSE checkedSet \cup {e}
  /\ UNCHANGED <<list, tlist, frameOk, frameOrigin, selected, multiple, callVars>>
  /\ UNCHANGED <<waitVars, dlgVars, selVars, extVars>>

InvokeCheck == InvokeOf(CheckVerbs, Indexes, OptionArgs)

NextCheck ==
  \/ Mutate
  \/ Toggle
  \/ FrameChange
  \/ InvokeCheck
  \/ check
  \/ frameCheck
  \/ Dispatch
  \/ Return

SpecCheck == Init /\ [][NextCheck]_vars

\* ------------------------------------------------ <select>: the specification
\* The option specifications the test passes, and the arguments built of them.
OptionSpecs == {ByLabel(<<"A">>), ByValue("c"), ByValue("zz"), ByIndex(1)}

RECURSIVE SeqsUpTo(_, _)
SeqsUpTo(S, n) ==
  IF n = 0 THEN {<<>>}
  ELSE LET shorter == SeqsUpTo(S, n - 1)
       IN  shorter \cup {Append(q, x) : q \in shorter, x \in S}

SelectArgs ==
  {One(o) : o \in OptionSpecs} \cup {Many(q) : q \in SeqsUpTo(OptionSpecs, MaxOpts)}

\* The <select> as the page (or an earlier action of the test) leaves it: with
\* or without the multiple attribute; without it at most one option is selected.
SelectState ==
  /\ pc \in Reading \cup {"idle"}
  /\ \E m \in BOOLEAN, sel \in SUBSET (1..NOpts) :
       /\ ~m => Cardinality(sel) <= 1
       /\ <<m, sel>> # <<multiple, selected>>
       /\ multiple' = m
       /\ selected' = sel
  /\ UNCHANGED <<list, tlist, frameOk, frameOrigin, checkedSet, callVars>>
  /\ UNCHANGED <<waitVars, dlgVars, selVars, extVars>>

InvokeSelect == InvokeOf({"select"}, {Undefined}, SelectArgs)

NextSelect ==
  \/ Mutate
  \/ SelectState
  \/ FrameChange
  \/ InvokeSelect
  \/ select
  \/ frameSelect
  \/ Return

SpecSelect == Init /\ [][NextSelect]_vars

\* ================================================================ the waits
\* { found: list.length > 0 }
buildWaitForSelectorExpression(l) == Len(l) > 0

\* { found: checkInDoc(doc) }: false while the frame is not accessible.
buildFrameWaitForSelectorExpression(l, ok) == IF ~ok THEN FALSE ELSE Len(l) > 0

\* currentUrl.includes(p)
Includes(str, p) ==
  \E i \in 1..(Len(str) + 1) :
    /\ i + Len(p) - 1 <= Len(str)
    /\ SubSeq(str, i, i + Len(p) - 1) = p

\* new RegExp(pattern.replace(/\*\*/g, '.*')).test(str), for a pattern whose
\* pieces between the ** are parts (literal text).
RECURSIVE TestParts(_, _)
TestParts(parts, str) ==
  IF parts = <<>> THEN TRUE
  ELSE \E i \in 1..(Len(str) + 1) :
         /\ i + Len(Head(parts)) - 1 <= Len(str)
         /\ SubSeq(str, i, i + Len(Head(parts)) - 1) = Head(parts)
         /\ TestParts(Tail(parts), SubSeq(str, i + Len(Head(parts)), Len(str)))

\* match(currentUrl) of waitForURL, for string patterns.
match(pattern, currentUrl) ==
  IF pattern.glob THEN TestParts(pattern.parts, currentUrl)
  ELSE Includes(currentUrl, pattern.parts[1])

Urls == {StartUrl, <<"a", "b">>}
\* 'b' and '**b'
Patterns == {[glob |-> FALSE, parts |-> << <<"b">> >>],
             [glob |-> TRUE, parts |-> << <<>>, <<"b">> >>]}

WaitKinds == {"waitForSelector", "frameWaitForSelector", "waitForURL", "waitForNewTab"}
Timeouts == {0, 100, MaxTimeout}
\* How long a Runtime.evaluate or a fetch of the tab list takes.
Latencies == {0, 50, MaxLatency}
Settled == {"done", "failed"}

\* The condition of the wait as an evaluation completing now observes it.
CondNow ==
  CASE wcall.kind = "waitForSelector" -> buildWaitForSelectorExpression(list)
    [] wcall.kind = "frameWaitForSelector" ->
         buildFrameWaitForSelectorExpression(list, frameOk)
    [] wcall.kind = "waitForURL" -> match(wcall.pattern, url)
    [] wcall.kind = "waitForNewTab" -> tabs \ initialIds # {}
    [] OTHER -> FALSE

\* The test calls a wait: up to the first loop test (waitForNewTab: up to the
\* fetch of its snapshot).
WaitCall ==
  /\ wpc = "idle"
  /\ pc = "idle"
  /\ \E k \in WaitKinds, t \in Timeouts, d \in Latencies :
     \E pat \in IF k = "waitForURL" THEN Patterns ELSE {NoPattern} :
       /\ k # "waitForNewTab" => d = 0
       /\ wcall' = [kind |-> k, timeoutMs |-> t, pattern |-> pat]
       /\ started' = now
       /\ IF k = "waitForNewTab"
          THEN /\ wpc' = "snapshot"
               /\ resumeAt' = now + d
               /\ deadline' = deadline
          ELSE /\ wpc' = "loop"
               /\ resumeAt' = resumeAt
               /\ deadline' = now + t
  /\ UNCHANGED <<now, evals, sleeps, lastEval, endedAt, url, tabs, initialIds, newTab>>
  /\ UNCHANGED <<domVars, callVars, dlgVars, selVars, extVars>>

\* waitForNewTab: the snapshot arrives; the deadline is set.
Snapshot ==
  /\ wpc = "snapshot"
  /\ now' = resumeAt
  /\ initialIds' = tabs
  /\ deadline' = resumeAt + wcall.timeoutMs
  /\ wpc' = "loop"
  /\ UNCHANGED <<wcall, started, resumeAt, evals, sleeps, lastEval, endedAt, url, tabs,
                 newTab>>
  /\ UNCHANGED <<domVars, callVars, dlgVars, selVars, extVars>>

\* while (Date.now() < deadline): true, the evaluation is sent.
StartEvaluate ==
  /\ wpc = "loop"
  /\ now < deadline
  /\ \E d \in Latencies :
       /\ resumeAt' = now + d
       /\ lastEval' = d
  /\ wpc' = "evaluating"
  /\ UNCHANGED <<wcall, now, started, deadline, evals, sleeps, endedAt, url, tabs,
                 initialIds, newTab>>
  /\ UNCHANGED <<domVars, callVars, dlgVars, selVars, extVars>>

\* The evaluation returns: success, or the poll sleep starts.
Evaluated ==
  /\ wpc = "evaluating"
  /\ now' = resumeAt
  /\ evals' = evals + 1
  /\ IF CondNow
     THEN /\ wpc' = "done"
          /\ endedAt' = resumeAt
          /\ resumeAt' = resumeAt
          /\ IF wcall.kind = "waitForNewTab"
             THEN \E id \in tabs \ initialIds : newTab' = id
             ELSE newTab' = newTab
     ELSE /\ wpc' = "sleeping"
          /\ resumeAt' = resumeAt + pollMs
          /\ UNCHANGED <<endedAt, newTab>>
  /\ UNCHANGED <<wcall, started, deadline, sleeps, lastEval, url, tabs, initialIds>>
  /\ UNCHANGED <<domVars, callVars, dlgVars, selVars, extVars>>

\* A poll timer that fires one interval late.
WakeLate ==
  /\ wpc = "sleeping"
  /\ now' = resumeAt + pollMs
  /\ sleeps' = sleeps + 1
  /\ wpc' = "loop"
  /\ UNCHANGED <<wcall, started, deadline, resumeAt, evals, lastEval, endedAt, url, tabs,
                 initialIds, newTab>>
  /\ UNCHANGED <<domVars, callVars, dlgVars, selVars, extVars>>

\* setTimeout(r, pollMs) fires.
Wake ==
  /\ wpc = "sleeping"
  /\ now' = resumeAt
  /\ sleeps' = sleeps + 1
  /\ wpc' = "loop"
  /\ UNCHANGED <<wcall, started, deadline, resumeAt, evals, lastEval, endedAt, url, tabs,
                 initialIds, newTab>>
  /\ UNCHANGED <<domVars, callVars, dlgVars, selVars, extVars>>

\* while (Date.now() < deadline): false. waitForURL reads the URL once more for
\* its message; the others throw.
TimeOut ==
  /\ wpc = "loop"
  /\ ~(now < deadline)
  /\ IF wcall.kind = "waitForURL"
     THEN /\ wpc' = "lastUrl"
          /\ \E d \in Latencies : resumeAt' = now + d
          /\ endedAt' = endedAt
     ELSE /\ wpc' = "failed"
          /\ endedAt' = now
          /\ resumeAt' = resumeAt
  /\ UNCHANGED <<wcall, now, started, deadline, evals, sleeps, lastEval, url, tabs,
                 initialIds, newTab>>
  /\ UNCHANGED <<domVars, callVars, dlgVars, selVars, extVars>>

\* waitForURL throws with the URL it just read.
LastUrl ==
  /\ wpc = "lastUrl"
  /\ now' = resumeAt
  /\ endedAt' = resumeAt
  /\ wpc' = "failed"
  /\ UNCHANGED <<wcall, started, deadline, resumeAt, evals, sleeps, lastEval, url, tabs,
                 initialIds, newTab>>
  /\ UNCHANGED <<domVars, callVars, dlgVars, selVars, extVars>>

\* The wait returned or threw; the test ends and the next one starts afresh.
WaitReturn ==
  /\ wpc \in Settled
  /\ wcall' = NoWait
  /\ wpc' = "idle"
  /\ now' = 0
  /\ started' = 0
  /\ deadline' = 0
  /\ resumeAt' = 0
  /\ evals' = 0
  /\ sleeps' = 0
  /\ lastEval' = 0
  /\ endedAt' = 0
  /\ url' = StartUrl
  /\ tabs' = {1}
  /\ initialIds' = {}
  /\ newTab' = 0
  /\ list' = <<>>
  /\ frameOk' = TRUE
  /\ UNCHANGED <<tlist, frameOrigin, checkedSet, selected, multiple>>
  /\ UNCHANGED <<callVars, dlgVars, selVars, extVars>>

\* The frame of a frame wait loads or goes away.
FrameLoad ==
  /\ wcall.kind = "frameWaitForSelector"
  /\ wpc \notin Settled
  /\ frameOk' = ~frameOk
  /\ UNCHANGED <<list, tlist, frameOrigin, checkedSet, selected, multiple>>
  /\ UNCHANGED <<callVars, waitVars, dlgVars, selVars, extVars>>

\* The page navigates.
Navigate ==
  /\ wcall.kind = "waitForURL"
  /\ wpc \notin Settled
  /\ \E u \in Urls \ {url} : url' = u
  /\ UNCHANGED <<wcall, wpc, now, started, deadline, resumeAt, evals, sleeps, lastEval,
                 endedAt, tabs, initialIds, newTab>>
  /\ UNCHANGED <<domVars, callVars, dlgVars, selVars, extVars>>

\* The page opens a tab.
OpenTab ==
  /\ wcall.kind = "waitForNewTab"
  /\ wpc \notin Settled
  /\ \E id \in (1..MaxTabs) \ tabs : tabs' = tabs \cup {id}
  /\ UNCHANGED <<wcall, wpc, now, started, deadline, resumeAt, evals, sleeps, lastEval,
                 endedAt, url, initialIds, newTab>>
  /\ UNCHANGED <<domVars, callVars, dlgVars, selVars, extVars>>

\* The steps of the wait itself (not of the page).
WaitStep == Snapshot \/ StartEvaluate \/ Evaluated \/ Wake \/ TimeOut \/ LastUrl

NextWait ==
  \/ Mutate
  \/ FrameLoad
  \/ Navigate
  \/ OpenTab
  \/ WaitCall
  \/ Snapshot
  \/ StartEvaluate
  \/ Evaluated
  \/ Wake
  \/ TimeOut
  \/ LastUrl
  \/ WaitReturn

\* The event loop runs a continuation that is ready, and every evaluation
\* answers.
SpecWait == Init /\ [][NextWait]_vars /\ WF_vars(WaitStep)

\* ============================================================== the dialogs
\* The handlers a test installs.
Handlers ==
  {Null, Returns(TRUE, "x"), Returns(FALSE, ""), Resolves(FALSE, "x"),
   Throws, Never}

\* client.Page.handleJavaScriptDialog({ accept, promptText })
handleJavaScriptDialog(result) ==
  [accept |-> result.accept, promptText |-> result.promptText]

\* The command that resolves a dialog.
dialogCommand == "Page.handleJavaScriptDialog"

RECURSIVE DeliveredIn(_)
DeliveredIn(S) ==
  IF S = {} THEN 0
  ELSE LET s == CHOOSE x \in S : TRUE
       IN pending[s].n + DeliveredIn(S \ {s})

\* The dialog events delivered so far, over all sessions.
Delivered == DeliveredIn(Sessions)

\* The client a CDP(...) call creates: clients are numbered in the order of
\* their creation (0: the model has no client left).
FreshSession ==
  IF Sessions \ armed = {} THEN 0
  ELSE CHOOSE s \in Sessions \ armed : \A t \in Sessions \ armed : s <= t

\* A getHandler that captured the handler of the time of the subscription.
getHandlerCaptured == Null

\* setupDialogHandler(client, () => dialogHandler): the closure reads the
\* variable at each call.
getHandler == dialogHandler

\* setDialogHandler: (handler) => { dialogHandler = handler }
setDialogHandler ==
  /\ \E handler \in Handlers : dialogHandler' = handler
  /\ UNCHANGED <<current, open, armed, dlg, pending, resolved, handles, left, inflight>>
  /\ UNCHANGED <<domVars, callVars, waitVars, selVars, extVars>>

\* switchToTab with a tab that exists: the current client is closed, then a
\* new one is attached, armed and made current; if the attach fails the
\* function throws with the closed client still the current one.
switchToTab ==
  /\ current \in open
  /\ \E s \in {FreshSession} \cap Sessions, attached \in BOOLEAN :
       IF attached
       THEN /\ open' = (open \ {current}) \cup {s}
            /\ armed' = armed \cup {s}
            /\ current' = s
       ELSE /\ open' = open \ {current}
            /\ UNCHANGED <<armed, current>>
  /\ left' = [left EXCEPT ![current] = 0]
  /\ inflight' = [inflight EXCEPT ![current] = <<>>]
  /\ UNCHANGED <<dialogHandler, dlg, pending, resolved, handles>>
  /\ UNCHANGED <<domVars, callVars, waitVars, selVars, extVars>>

\* A createTabHandle that installs the tab's client as the current one.
createTabHandleAsCurrent ==
  /\ \E s \in {FreshSession} \cap Sessions :
       /\ open' = open \cup {s}
       /\ armed' = armed \cup {s}
       /\ handles' = handles \cup {s}
       /\ current' = s
  /\ UNCHANGED <<dialogHandler, dlg, pending, resolved, left, inflight>>
  /\ UNCHANGED <<domVars, callVars, waitVars, selVars, extVars>>

\* createTabHandle: a client of its own for the tab, armed with the same
\* getHandler; the current client stays.
createTabHandle ==
  /\ \E s \in {FreshSession} \cap Sessions :
       /\ open' = open \cup {s}
       /\ armed' = armed \cup {s}
       /\ handles' = handles \cup {s}
  /\ UNCHANGED <<dialogHandler, current, dlg, pending, resolved, left, inflight>>
  /\ UNCHANGED <<domVars, callVars, waitVars, selVars, extVars>>

\* The 'javascriptDialogOpening' callback on session s: the handler is
\* getHandler() ?? defaultDialogHandler; a handler that returns a value is
\* awaited and the command issued in the same turn of the event loop, a
\* handler that throws leaves the dialog without a command, one that returns
\* a pending promise suspends the callback.
javascriptDialogOpening(s) ==
  /\ s \in open \cap armed
  /\ dlg[s] = "none"
  /\ dialogCommand \notin Range(inflight[s])
  /\ Delivered < MaxDialogs
  /\ LET handler == IF getHandler = Null THEN defaultDialogHandler
                     ELSE getHandler
     IN /\ pending' = [pending EXCEPT ![s] = [n |-> @.n + 1,
                                                installed |-> getHandler,
                                                handler |-> handler]]
        /\ CASE handler.kind = "returns" ->
                  /\ resolved' = [resolved EXCEPT
                                     ![s] = Append(@, handleJavaScriptDialog(handler))]
                  /\ inflight' = [inflight EXCEPT ![s] = Append(@, dialogCommand)]
                  /\ dlg' = dlg
             [] handler.kind = "throws" ->
                  /\ dlg' = [dlg EXCEPT ![s] = "stuck"]
                  /\ UNCHANGED <<resolved, inflight>>
             [] OTHER ->
                  /\ dlg' = [dlg EXCEPT ![s] = "handling"]
                  /\ UNCHANGED <<resolved, inflight>>
  /\ UNCHANGED <<dialogHandler, current, open, armed, handles, left>>
  /\ UNCHANGED <<domVars, callVars, waitVars, selVars, extVars>>

\* The promise of the handler resolves: the callback resumes and issues the
\* command, which is rejected if the client was closed meanwhile.
HandlerSettles(s) ==
  /\ dlg[s] = "handling"
  /\ pending[s].handler.kind = "resolves"
  /\ IF s \in open
     THEN /\ resolved' = [resolved EXCEPT
                            ![s] = Append(@, handleJavaScriptDialog(pending[s].handler))]
          /\ inflight' = [inflight EXCEPT ![s] = Append(@, dialogCommand)]
          /\ dlg' = [dlg EXCEPT ![s] = "none"]
     ELSE /\ dlg' = [dlg EXCEPT ![s] = "stuck"]
          /\ UNCHANGED <<resolved, inflight>>
  /\ UNCHANGED <<dialogHandler, current, open, armed, pending, handles, left>>
  /\ UNCHANGED <<domVars, callVars, waitVars, selVars, extVars>>

\* Without i-th element.
Without(q, i) == [j \in 1..(Len(q) - 1) |-> IF j < i THEN q[j] ELSE q[j + 1]]

\* The response to a command in flight on session s arrives. A dialog that is
\* open blocks the page: only the command that resolves it is answered.
Response(s) ==
  /\ s \in open
  /\ \E i \in 1..Len(inflight[s]) :
       /\ inflight[s][i] = dialogCommand \/ dlg[s] = "none"
       /\ inflight' = [inflight EXCEPT ![s] = Without(@, i)]
  /\ UNCHANGED <<dialogHandler, current, open, armed, dlg, pending, resolved, handles,
                 left>>
  /\ UNCHANGED <<domVars, callVars, waitVars, selVars, extVars>>

NextDialog ==
  \/ setDialogHandler
  \/ switchToTab
  \/ createTabHandle
  \/ \E s \in Sessions : javascriptDialogOpening(s)
  \/ \E s \in Sessions : HandlerSettles(s)
  \/ \E s \in Sessions : Response(s)

SpecDialog == Init /\ [][NextDialog]_vars

\* ============================================================= the sessions
\* The commands of a click, each awaited before the next: the script that
\* finds the centre, then the two mouse events.
ClickCommands == <<"Runtime.evaluate", "mousePressed", "mouseReleased">>

\* A verb is running on session s.
Busy(s) == left[s] > 0 \/ \E i \in DOMAIN inflight[s] : inflight[s][i] # dialogCommand

\* createPage(client).click on the client of session s: the verb starts.
pageClick(s) ==
  /\ s \in open
  /\ ~Busy(s)
  /\ left' = [left EXCEPT ![s] = Len(ClickCommands)]
  /\ UNCHANGED <<dialogHandler, current, open, armed, dlg, pending, resolved, handles,
                 inflight>>
  /\ UNCHANGED <<domVars, callVars, waitVars, selVars, extVars>>

\* browser.click: (selector) => page.click(selector), page being the page of
\* the current client.
browserClick == pageClick(current)

\* TabHandle.click: (selector) => tabPage.click(selector), tabPage being the
\* page of the handle's own client.
tabClick(h) ==
  /\ h \in handles
  /\ pageClick(h)

\* A verb that issues its next command without awaiting the one before.
SendCommandNoAwait(s) ==
  /\ s \in open
  /\ left[s] > 0
  /\ Len(inflight[s]) < Len(ClickCommands)
  /\ inflight' = [inflight EXCEPT
                    ![s] = Append(@, ClickCommands[Len(ClickCommands) - left[s] + 1])]
  /\ left' = [left EXCEPT ![s] = @ - 1]
  /\ UNCHANGED <<dialogHandler, current, open, armed, dlg, pending, resolved, handles>>
  /\ UNCHANGED <<domVars, callVars, waitVars, selVars, extVars>>

\* await client.X(...): the verb on session s issues its next command once the
\* one before has been answered.
SendCommand(s) ==
  /\ s \in open
  /\ left[s] > 0
  /\ \A i \in DOMAIN inflight[s] : inflight[s][i] = dialogCommand
  /\ inflight' = [inflight EXCEPT
                    ![s] = Append(@, ClickCommands[Len(ClickCommands) - left[s] + 1])]
  /\ left' = [left EXCEPT ![s] = @ - 1]
  /\ UNCHANGED <<dialogHandler, current, open, armed, dlg, pending, resolved, handles>>
  /\ UNCHANGED <<domVars, callVars, waitVars, selVars, extVars>>

\* TabHandle.close: () => tabClient.close()
tabClose(h) ==
  /\ h \in handles \cap open
  /\ open' = open \ {h}
  /\ left' = [left EXCEPT ![h] = 0]
  /\ inflight' = [inflight EXCEPT ![h] = <<>>]
  /\ UNCHANGED <<dialogHandler, current, armed, dlg, pending, resolved, handles>>
  /\ UNCHANGED <<domVars, callVars, waitVars, selVars, extVars>>

NextSession ==
  \/ browserClick
  \/ \E h \in Sessions : tabClick(h)
  \/ \E s \in Sessions : SendCommand(s)
  \/ \E s \in Sessions : Response(s)
  \/ \E h \in Sessions : tabClose(h)
  \/ createTabHandle
  \/ switchToTab
  \/ \E s \in Sessions : javascriptDialogOpening(s)

SpecSession == Init /\ [][NextSession]_vars

\* ===================================================== sessions and targets
\* Several clients can be attached to one tab; the browser sends the
\* 'javascriptDialogOpening' event of a dialog to every attached client that
\* enabled the Page domain.

\* Handler invocations so far on the sessions S are DeliveredIn(S); these are
\* the Page.handleJavaScriptDialog commands issued on them.
RECURSIVE ResolvedIn(_)
ResolvedIn(S) ==
  IF S = {} THEN 0
  ELSE LET s == CHOOSE x \in S : TRUE
       IN Len(resolved[s]) + ResolvedIn(S \ {s})

\* The sessions whose client was attached to tab t.
On(t) == {s \in Sessions : tabOf[s] = t}

\* switchToTab's `tabs[indexOrId]` / waitForNewTab's `newTabInfo`: the tab the
\* next CDP({ target: tab.id }) call attaches to.
pickTab ==
  /\ FreshSession \in Sessions
  /\ tabOf[FreshSession] = 0
  /\ \E t \in Targets : tabOf' = [tabOf EXCEPT ![FreshSession] = t]
  /\ UNCHANGED <<opened, sent, made, lost, closed>>
  /\ UNCHANGED <<domVars, callVars, waitVars, dlgVars, selVars, chainVars, navVars>>

Picked == FreshSession \in Sessions /\ tabOf[FreshSession] # 0

\* The tab picked is one no client of the engine is attached to, as the tab
\* waitForNewTab finds is when the test awaits each of its calls.
PickedNew == Picked /\ On(tabOf[FreshSession]) \cap open = {}

\* The page of tab t opens a dialog (alert, confirm, prompt, beforeunload): the
\* browser sends the event to every client attached to t with Page enabled.
dialogOpens(t) ==
  /\ opened[t] < MaxDialogs
  /\ \A s \in On(t) :
       /\ pending[s].n = sent[s]
       /\ dlg[s] = "none"
       /\ dialogCommand \notin Range(inflight[s])
  /\ opened' = [opened EXCEPT ![t] = @ + 1]
  /\ sent' = [s \in Sessions |->
                IF s \in On(t) \cap open \cap armed THEN sent[s] + 1 ELSE sent[s]]
  /\ UNCHANGED <<tabOf, made, lost, closed>>
  /\ UNCHANGED <<domVars, callVars, waitVars, dlgVars, selVars, chainVars, navVars>>

\* An event the browser sent reaches its client: the callback runs.
dialogEvent(s) ==
  /\ pending[s].n < sent[s]
  /\ javascriptDialogOpening(s)

NextTarget ==
  \/ pickTab
  \/ Picked /\ switchToTab
  \/ PickedNew /\ createTabHandle
  \/ \E t \in Targets : dialogOpens(t)
  \/ \E s \in Sessions : dialogEvent(s)
  \/ \E s \in Sessions : Response(s)

SpecTarget == Init /\ [][NextTarget]_vars

\* ================================================================= goto
\* goto: await client.Page.enable(); await client.Page.navigate({ url });
\* await client.Page.loadEventFired(). The browser writes the response to the
\* navigate command and the load event of the page on the session; the client
\* handles the messages in the order it received them, and loadEventFired()
\* called without a callback resolves on the next such event.
NavUnchanged ==
  UNCHANGED <<wcall, wpc, now, started, deadline, resumeAt, evals, sleeps, lastEval,
              endedAt, tabs, initialIds, newTab>>

gotoCall ==
  /\ gpc = "idle"
  /\ gotos < MaxGotos
  /\ \E u \in Urls : gurl' = u
  /\ gotos' = gotos + 1
  /\ gpc' = "enable"
  /\ UNCHANGED <<navigated, fired, queue, url>>
  /\ NavUnchanged
  /\ UNCHANGED <<domVars, callVars, dlgVars, selVars, chainVars, tabVars>>

\* Page.enable is answered; goto sends Page.navigate.
navigate ==
  /\ gpc = "enable"
  /\ gpc' = "navigate"
  /\ UNCHANGED <<gurl, gotos, navigated, fired, queue, url>>
  /\ NavUnchanged
  /\ UNCHANGED <<domVars, callVars, dlgVars, selVars, chainVars, tabVars>>

\* The browser answers the command: the navigation is committed, or it failed
\* (errorText, which goto does not read) and no page will load.
navigateResponse ==
  /\ gpc = "navigate"
  /\ navigated = "pending"
  /\ \E ok \in BOOLEAN :
       /\ fired => ok
       /\ navigated' = IF ok THEN "committed" ELSE "failed"
       /\ url' = IF ok THEN gurl ELSE url
  /\ queue' = Append(queue, "response")
  /\ UNCHANGED <<gpc, gurl, gotos, fired>>
  /\ NavUnchanged
  /\ UNCHANGED <<domVars, callVars, dlgVars, selVars, chainVars, tabVars>>

\* The page navigated to fires its load event: the browser sends
\* Page.loadEventFired, before or after the response to the command.
loadEventFired ==
  /\ gpc \in {"navigate", "loadEventFired"}
  /\ navigated # "failed"
  /\ ~fired
  /\ fired' = TRUE
  /\ queue' = Append(queue, "load")
  /\ UNCHANGED <<gpc, gurl, gotos, navigated, url>>
  /\ NavUnchanged
  /\ UNCHANGED <<domVars, callVars, dlgVars, selVars, chainVars, tabVars>>

\* The client handles the next message: the response resumes goto, which calls
\* loadEventFired() and waits; a load event resolves that promise if goto is
\* waiting on it and is dropped otherwise.
Receive ==
  /\ queue # <<>>
  /\ queue' = Tail(queue)
  /\ gpc' = IF Head(queue) = "response" THEN "loadEventFired"
            ELSE IF gpc = "loadEventFired" THEN "done"
            ELSE gpc
  /\ UNCHANGED <<gurl, gotos, navigated, fired, url>>
  /\ NavUnchanged
  /\ UNCHANGED <<domVars, callVars, dlgVars, selVars, chainVars, tabVars>>

\* goto returned.
gotoReturn ==
  /\ gpc = "done"
  /\ gpc' = "idle"
  /\ navigated' = "pending"
  /\ fired' = FALSE
  /\ UNCHANGED <<gurl, gotos, queue, url>>
  /\ NavUnchanged
  /\ UNCHANGED <<domVars, callVars, dlgVars, selVars, chainVars, tabVars>>

NextGoto ==
  \/ gotoCall
  \/ navigate
  \/ navigateResponse
  \/ loadEventFired
  \/ Receive
  \/ gotoReturn

\* The browser answers every command and the client handles every message.
SpecGoto ==
  /\ Init
  /\ [][NextGoto]_vars
  /\ WF_vars(navigate)
  /\ WF_vars(navigateResponse)
  /\ WF_vars(Receive)

\* ============================================================ the locators
\* A locator (createLocator) and a frame handle (createFrameHandle) keep the
\* selector, the index and the chain; their methods call page.X(...) and
\* client.Input.X(...), `page` and `client` being variables of createBrowser
\* that switchToTab assigns.

\* A locator that kept the page of the time it was made.
locatorPageCaptured == made

\* click: async () => page.click(selector, index): `page` as it is when the
\* method is called.
locatorPage == current

\* page.evaluate(expr) and client.Input.dispatchMouseEvent(...) of a frame
\* handle: `page` and `client` as they are when the method is called.
framePage == current

\* browser.locator(selector) / browser.frame(selector)
createLocator ==
  /\ made # current
  /\ made' = current
  /\ UNCHANGED <<tabOf, opened, sent, lost, closed>>
  /\ UNCHANGED <<domVars, callVars, waitVars, dlgVars, selVars, chainVars, navVars>>

\* A verb of an object made earlier, on the session s its page has: on a client
\* that is closed the first command is rejected.
handleClick(s) ==
  /\ made # 0
  /\ IF s \in open
     THEN pageClick(s)
     ELSE /\ s \notin lost
          /\ lost' = lost \cup {s}
          /\ UNCHANGED <<tabOf, opened, sent, made, closed>>
          /\ UNCHANGED <<domVars, callVars, waitVars, dlgVars, selVars, chainVars, navVars>>

locatorClick == handleClick(locatorPage)

frameClick == handleClick(framePage)

NextLocator ==
  \/ createLocator
  \/ locatorClick
  \/ frameClick
  \/ switchToTab
  \/ createTabHandle
  \/ \E h \in Sessions : tabClick(h)
  \/ \E s \in Sessions : SendCommand(s)
  \/ \E s \in Sessions : Response(s)

SpecLocator == Init /\ [][NextLocator]_vars

\* =============================================================== shutdown
\* browser.close(): await client.close(); if (launched) launched.kill(). A
\* browser that createBrowser launched is killed, which ends every connection
\* to it; one it connected to by port keeps running.
close ==
  /\ ~closed
  /\ current \in open
  /\ \E launched \in BOOLEAN :
       /\ open' = IF launched THEN {} ELSE open \ {current}
       /\ left' = [s \in Sessions |-> IF s \in open' THEN left[s] ELSE 0]
       /\ inflight' = [s \in Sessions |-> IF s \in open' THEN inflight[s] ELSE <<>>]
  /\ closed' = TRUE
  /\ UNCHANGED <<dialogHandler, current, armed, dlg, pending, resolved, handles>>
  /\ UNCHANGED <<tabOf, opened, sent, made, lost>>
  /\ UNCHANGED <<domVars, callVars, waitVars, selVars, chainVars, navVars>>

\* The test, up to its browser.close().
NextClose ==
  \/ ~closed /\ browserClick
  \/ ~closed /\ \E h \in Sessions : tabClick(h)
  \/ ~closed /\ \E s \in Sessions : SendCommand(s)
  \/ ~closed /\ \E s \in Sessions : Response(s)
  \/ ~closed /\ \E h \in Sessions : tabClose(h)
  \/ ~closed /\ createTabHandle
  \/ ~closed /\ switchToTab
  \/ close

SpecClose == Init /\ [][NextClose]_vars

\* ============================================================ the selectors
Names ==
  {<<"n", "a", "m", "e">>, <<"N", "a", "m", "e">>, <<"I", "D">>,
   <<"c", "l", "a", "s", "s">>, <<"d", "a", "-", "t">>}
Tokens == {<<"a">>, <<"a", ".", "b">>, <<"/", "a">>, <<"a", "'">>}
Spaces == {<<>>, <<" ">>}
Gaps == {<<" ">>, <<" ", " ">>}
Openers == {<<"\"">>, <<"'">>}
Closers == Openers \cup {<<>>}
Bodies ==
  {<<>>, <<"/", "/", "a">>, <<".", "/", "a">>, <<"(", "/", "/", "a", ")">>,
   <<"#", "a">>, <<".", "a", ".", "b">>, <<".", "a", "\\", ".", "b">>,
   <<"a", " ", "b">>, <<"[", "n", "a", "m", "e", "=", "\"", "v", "\"", "]">>,
   <<"n", "a", "m", "e", "=", "v">>}

ShorthandInputs ==
  {[kind |-> "attr", name |-> n, sp |-> sp, q1 |-> q1, q2 |-> q2, tokens |-> ts,
    gap |-> g, pad |-> pad, body |-> <<>>] :
     n \in Names, sp \in Spaces, q1 \in Openers, q2 \in Closers,
     ts \in SeqsUpTo(Tokens, MaxTokens), g \in Gaps, pad \in Spaces}

PlainInputs ==
  {[NoInput EXCEPT !.kind = "plain", !.pad = pad, !.body = b] :
     pad \in Spaces, b \in Bodies}

\* tokens.join(gap)
RECURSIVE Join(_, _)
Join(ts, g) ==
  IF ts = <<>> THEN <<>>
  ELSE IF Len(ts) = 1 THEN Head(ts)
  ELSE Head(ts) \o g \o Join(Tail(ts), g)

\* The string the test passes.
RawOf(in) ==
  IF in.kind = "attr"
  THEN in.pad \o in.name \o in.sp \o <<"=">> \o in.sp \o in.q1
         \o Join(in.tokens, in.gap) \o in.q2 \o in.pad
  ELSE in.pad \o in.body \o in.pad

\* A locator, frame or verb is given a selector and resolves it.
Resolve ==
  /\ ~resolution.done
  /\ \E in \in ShorthandInputs \cup PlainInputs :
       resolution' = [done |-> TRUE, input |-> in, raw |-> RawOf(in),
                      out |-> resolveSelector(RawOf(in))]
  /\ UNCHANGED <<domVars, callVars, waitVars, dlgVars, extVars>>

\* The call is over; the next one starts.
Resolved ==
  /\ resolution.done
  /\ resolution' = NoResolution
  /\ UNCHANGED <<domVars, callVars, waitVars, dlgVars, extVars>>

NextResolve ==
  \/ Mutate
  \/ Resolve
  \/ Resolved

SpecResolve == Init /\ [][NextResolve]_vars

\* ========================================================== the frame chain
\* The iframes step i of a chain matches are frames[i], in document order, in
\* the document the traversal is in at step i; an entry tells whether that
\* iframe exposes a contentDocument (same origin, loaded).
\* for each chain entry: var iframe = doc.querySelector(sel) (XPath:
\* FIRST_ORDERED_NODE_TYPE); if (!iframe || !iframe.contentDocument) throw;
\* doc = iframe.contentDocument. The path lists the position, among the
\* matches of its step, of each iframe descended into.
RECURSIVE GetDocFrom(_, _, _)
GetDocFrom(chain, i, path) ==
  IF i > Len(chain) THEN [kind |-> "doc", path |-> path]
  ELSE IF chain[i] = <<>> THEN [kind |-> "throws", path |-> path]
  ELSE IF ~chain[i][1] THEN [kind |-> "throws", path |-> path]
  ELSE GetDocFrom(chain, i + 1, Append(path, 1))

buildFrameChainGetDocExpression(chain) == GetDocFrom(chain, 1, <<>>)

\* browser.frame(selector) or browser.frame([selectors]): a handle with a chain.
createFrameHandle ==
  /\ doc = NoDoc
  /\ \E n \in 1..MaxDepth : frames' = [i \in 1..n |-> <<>>]
  /\ doc' = doc
  /\ UNCHANGED <<domVars, callVars, waitVars, dlgVars, selVars, tabVars, navVars>>

\* The page gains or loses an iframe that matches a step of the chain.
Reframe ==
  /\ doc = NoDoc
  /\ \E i \in DOMAIN frames :
       \/ \E ok \in BOOLEAN, k \in 0..Len(frames[i]) :
            /\ Len(frames[i]) < MaxFrames
            /\ frames' = [frames EXCEPT ![i] =
                 SubSeq(@, 1, k) \o <<ok>> \o SubSeq(@, k + 1, Len(@))]
       \/ \E k \in DOMAIN frames[i] :
            frames' = [frames EXCEPT ![i] =
                 SubSeq(@, 1, k - 1) \o SubSeq(@, k + 1, Len(@))]
  /\ doc' = doc
  /\ UNCHANGED <<domVars, callVars, waitVars, dlgVars, selVars, tabVars, navVars>>

\* An operation of the frame handle evaluates its script: the traversal.
getDoc ==
  /\ doc = NoDoc
  /\ frames # <<>>
  /\ doc' = buildFrameChainGetDocExpression(frames)
  /\ frames' = frames
  /\ UNCHANGED <<domVars, callVars, waitVars, dlgVars, selVars, tabVars, navVars>>

\* The operation is over.
gotDoc ==
  /\ doc # NoDoc
  /\ doc' = NoDoc
  /\ frames' = frames
  /\ UNCHANGED <<domVars, callVars, waitVars, dlgVars, selVars, tabVars, navVars>>

NextChain ==
  \/ createFrameHandle
  \/ Reframe
  \/ getDoc
  \/ gotDoc

SpecChain == Init /\ [][NextChain]_vars

\* ================================================================ properties
\* The step in which a call evaluates the script that resolves its selector
\* (for dragAndDrop: the source, then the target).
Evaluates ==
  /\ pc \in {"invoked", "invoked2"}
  /\ pc' # pc

PageEvaluates == call.scope = "page" /\ Evaluates

\* The same step of a frame-handle call whose frame chain is accessible.
FrameEvaluates == call.scope = "frame" /\ frameOk /\ Evaluates

LocatorErrors == {"not-found", "strict", "out-of-range"}

\* C1: a page-level operation given no index, evaluated on a page where its
\* selector matches c nodes, finds the node when c = 1, fails with not-found
\* (count 0) when c = 0 and fails with the strict error carrying c when c >= 2.
C1_StrictRule ==
  [][(PageEvaluates /\ CurIndex = Undefined) =>
       LET c == Len(CurList)
       IN  /\ c = 1 => /\ thrown'.name \notin LocatorErrors
                       /\ value'.error \notin LocatorErrors
                       /\ value'.error = "none" => value'.el = CurList[1]
           /\ c = 0 => /\ pc' = "failed"
                       /\ thrown'.name = "not-found"
                       /\ thrown'.count = 0
           /\ c >= 2 => /\ pc' = "failed"
                        /\ thrown'.name = "strict"
                        /\ thrown'.count = c]_vars

\* A page-level state predicate without index failed on two matches.
C1_Witness ==
  /\ call.scope = "page"
  /\ call.verb = "isVisible"
  /\ call.index = Undefined
  /\ pc = "failed"
  /\ Len(list) = 2
  /\ thrown.name = "strict"
  /\ thrown.count = 2

\* The step found node el: no locator failure, and a script that returns its
\* node returned el.
FoundNext(el) ==
  /\ thrown'.name \notin LocatorErrors
  /\ value'.error \notin LocatorErrors
  /\ value'.error = "none" => value'.el = el
  /\ call.verb \in ReadVerbs => pc' = "done" /\ ret' = Str(el)

NotFoundNext ==
  /\ pc' = "failed"
  /\ thrown'.name = "not-found"
  /\ thrown'.count = 0

StrictNext(c) ==
  /\ pc' = "failed"
  /\ thrown'.name = "strict"
  /\ thrown'.count = c

OutOfRangeNext(c, n) ==
  /\ pc' = "failed"
  /\ thrown'.name = "out-of-range"
  /\ thrown'.count = c
  /\ thrown'.index = n

\* C2: textContent() and getAttribute() of a frame handle, given no index, fail
\* with not-found on 0 matches and with strict (carrying the count) on 2 or
\* more, and return a value only when exactly one node matches.
C2_FrameReadStrict ==
  [][(FrameEvaluates /\ call.verb \in ReadVerbs /\ call.index = Undefined) =>
       LET c == Len(list)
       IN  /\ c = 0 => NotFoundNext
           /\ c >= 2 => StrictNext(c)
           /\ pc' = "done" => c = 1]_vars

\* C3 as stated: with index n and c matches the node n (0-based) is found iff
\* 0 <= n < c, and every other case, c = 0 included, is out-of-range with c, n.
C3_NthAsStated ==
  [][((PageEvaluates \/ FrameEvaluates) /\ CurIndex.kind = "number") =>
       LET c == Len(CurList)
           n == CurIndex.n
       IN  IF 0 <= n /\ n < c THEN FoundNext(CurList[n + 1])
           ELSE OutOfRangeNext(c, n)]_vars

\* C3, amended: with index n and c matches the node n (0-based) is found iff
\* 0 <= n < c; with c = 0 the failure is not-found (count 0); with c >= 1 and
\* n < 0 or n >= c it is out-of-range carrying c and n.
C3_Nth ==
  [][((PageEvaluates \/ FrameEvaluates) /\ CurIndex.kind = "number") =>
       LET c == Len(CurList)
           n == CurIndex.n
       IN  IF 0 <= n /\ n < c THEN FoundNext(CurList[n + 1])
           ELSE IF c = 0 THEN NotFoundNext
           ELSE OutOfRangeNext(c, n)]_vars

\* nth(2) of three matches was found and read; (the other cases are the
\* failures of C3_Nth).
C3_Witness ==
  /\ call.verb = "getTextContent"
  /\ call.index = Nth(2)
  /\ pc = "done"
  /\ Len(list) = 3
  /\ ret = Str(list[3])

\* C4: with first() or last() and c >= 1 matches every operation, on CSS and
\* XPath selectors, at page level and in frames, acts on match 0 for first()
\* and on match c - 1 for last().
C4_FirstLast ==
  [][((PageEvaluates \/ FrameEvaluates) /\ CurIndex \in {First, Last}
        /\ Len(CurList) >= 1) =>
       FoundNext(IF CurIndex = First THEN CurList[1]
                 ELSE CurList[Len(CurList)])]_vars

\* last() in a frame, by XPath, of three matches resolved the third one.
C4_Witness ==
  /\ call.scope = "frame"
  /\ call.verb = "isSelected"
  /\ call.selector = XPathSel
  /\ call.index = Last
  /\ Len(list) = 3
  /\ pc = "done"
  /\ value.el = list[3]

\* C5: a verb whose selector resolution ended in not-found, strict or
\* out-of-range has failed with no mouse or key event dispatched by the call;
\* whenever an event has been dispatched nothing was thrown (for dragAndDrop:
\* source and target were both resolved).
C5_NoEventsOnFailure ==
  /\ thrown.name \in LocatorErrors => pc = "failed" /\ events = <<>>
  /\ events # <<>> => thrown = NoError /\ pc \in {"dispatch", "done"}

\* A drag whose source resolved and whose target was ambiguous: no event.
C5_Witness ==
  /\ call.verb = "dragAndDrop"
  /\ from # NoPoint
  /\ pc = "failed"
  /\ thrown.name = "strict"
  /\ events = <<>>

Identified(o) ==
  LET hits == {i \in 1..NOpts :
                 CASE o.by = "label" -> trim(Options[i].textContent) = o.label
                   [] o.by = "value" -> Options[i].value = o.value
                   [] OTHER -> i = o.index + 1}
  IN  IF hits = {} THEN 0 ELSE CHOOSE i \in hits : \A j \in hits : i <= j

Requested(opts) == {Identified(opts[k]) : k \in 1..Len(opts)} \ {0}

\* The step in which select(), given an array, ran its script on a <select>.
SelectsMany ==
  /\ call.verb = "select"
  /\ call.option.array
  /\ Evaluates
  /\ value'.kind = "obj"
  /\ value'.error = "none"

SelectorWait == wcall.kind \in {"waitForSelector", "frameWaitForSelector"}

\* What C8 says of the evaluations: the one that finds the condition true ends
\* the wait in success with no further evaluation or sleep, and any other is
\* followed by the poll sleep.
PollsUntilTrue ==
  /\ (wpc = "evaluating" /\ wpc' # wpc) =>
       IF CondNow
       THEN /\ wpc' = "done"
            /\ evals' = evals + 1
            /\ sleeps' = sleeps
       ELSE wpc' = "sleeping"
  /\ wpc = "done" => (wpc' = "idle" \/ (evals' = evals /\ sleeps' = sleeps))

C9_AsStated == wpc \in Settled => evals >= 1

\* C10: when no dialog handler is installed, every dialog-opened event on an
\* armed session is resolved with accept = true and promptText = '': the
\* step that delivers the event appends that command on the session and
\* leaves no dialog open.
C10_DefaultAccepts ==
  [][\A s \in Sessions :
       (pending'[s].n = pending[s].n + 1 /\ dialogHandler = Null) =>
         /\ resolved'[s] = Append(resolved[s], [accept |-> TRUE, promptText |-> ""])
         /\ dlg'[s] = "none"]_vars

\* A session armed by switchToTab or createTabHandle resolved a dialog by the
\* default after setDialogHandler(null) undid a handler that had dismissed
\* one on the first session.
C10_Witness ==
  \E s \in Sessions \ {1} :
    /\ resolved[1] = <<[accept |-> FALSE, promptText |-> ""]>>
    /\ dialogHandler = Null
    /\ pending[s].n = 1
    /\ pending[s].installed = Null
    /\ resolved[s] = <<[accept |-> TRUE, promptText |-> ""]>>

\* The command that carries the decision of a handler.
Decision(handler) == [accept |-> handler.accept, promptText |-> handler.promptText]

\* C11: the decision applied to a dialog is the one of the handler installed
\* by the most recent setDialogHandler at the moment the event is delivered,
\* on every armed session: an event delivered while a handler that returns a
\* value is installed is answered by that handler's decision, the handler
\* called is the installed one, and a command issued later (when the
\* handler's promise resolves) carries the decision of the handler that was
\* installed at the delivery, whatever is installed by then.
C11_CurrentHandler ==
  [][\A s \in Sessions :
       /\ (pending'[s].n = pending[s].n + 1 /\ dialogHandler # Null) =>
            /\ pending'[s].handler = dialogHandler
            /\ dialogHandler.kind = "returns" =>
                 resolved'[s] = Append(resolved[s], Decision(dialogHandler))
       /\ (pending'[s].n = pending[s].n /\ resolved'[s] # resolved[s]) =>
            resolved'[s] = Append(resolved[s], Decision(pending[s].installed))]_vars

\* A session armed after the first one answered two dialogs with the
\* decisions of two different handlers: the handler was replaced between the
\* events, with the one subscription.
C11_Witness ==
  \E s \in Sessions \ {1} :
    resolved[s] = <<Decision(Returns(TRUE, "x")), Decision(Resolves(FALSE, "x"))>>

\* C12 as stated: every dialog event delivered to an armed session is followed
\* by a dialog-resolution command on that session for every handler that
\* settles (returns, resolves, throws or rejects): the callback of no session
\* has ended without issuing the command for its dialog.
C12_AsStated == \A s \in Sessions : dlg[s] # "stuck"

\* C13 as stated: switchToTab either completes with a new session opened,
\* armed and current, or fails with the previously current session still
\* current and still open: after a switchToTab call has returned or thrown,
\* the current session is never a closed one.
C13_AsStated == current \in open

\* C14 as stated: waitForNewTab run concurrently with an action that opens
\* exactly one new tab returns a handle for that tab under every interleaving
\* of the snapshot capture, the polls and the tab opening within the timeout.
\* The interleaving checked here: the tab opens after the call and before the
\* answer to the snapshot request is produced (timeout above 0).
C14_AsStated ==
  ( /\ wcall.kind = "waitForNewTab"
    /\ wcall.timeoutMs > 0
    /\ wpc \in Settled
    /\ Cardinality(tabs) = 2
    /\ tabs \subseteq initialIds )
  => (wpc = "done" /\ newTab \in tabs \ {1})

\* C15: the handle returned by waitForNewTab is bound to a session of its own,
\* never the current one; a verb called through a TabHandle touches only the
\* handle's session and one called through the browser only the current
\* session; nothing but switchToTab changes, replaces or closes the current
\* session (not waitForNewTab, not a TabHandle verb, not TabHandle.close).
C15_OwnSession ==
  /\ [](current \notin handles)
  /\ [][/\ \A h \in handles :
             tabClick(h) =>
               \A s \in Sessions \ {h} : left'[s] = left[s] /\ inflight'[s] = inflight[s]
        /\ browserClick =>
             \A s \in Sessions \ {current} :
               left'[s] = left[s] /\ inflight'[s] = inflight[s]
        /\ (current' # current \/ (current \in open /\ current \notin open')) =>
             switchToTab]_vars

\* A TabHandle and the browser have each a command in flight on their own
\* sessions, and another TabHandle was closed, with the current session open.
C15_Witness ==
  /\ current \in open
  /\ inflight[current] # <<>>
  /\ \E h \in handles : inflight[h] # <<>>
  /\ \E h \in handles : h \notin open

\* The verb commands in flight on session s.
NVerb(s) == Cardinality({i \in DOMAIN inflight[s] : inflight[s][i] # dialogCommand})

\* C16 as stated: on no session a command is issued while an earlier one is
\* awaiting its response, the dialog-resolution command included: at most one
\* command is in flight per session.
C16_AsStated == \A s \in Sessions : Len(inflight[s]) <= 1

\* C16, amended: a verb awaits the response to each of its commands before it
\* issues the next, so at most one verb command is in flight per session; the
\* dialog-resolution command is issued from the callback while the verb
\* command that opened the dialog is still in flight, at most one at a time.
C16_OnePerVerb ==
  \A s \in Sessions : NVerb(s) <= 1 /\ Len(inflight[s]) - NVerb(s) <= 1

\* The mouse release of a click is awaiting its response and the command that
\* resolves the dialog it opened has been issued on the same session.
C16_Witness ==
  \E s \in Sessions : inflight[s] = <<"mouseReleased", dialogCommand>>

\* C17 as stated: a frame-scoped operation whose frame chain is not accessible
\* fails with a frame-not-accessible error, distinct from the not-found error;
\* none returns a normal value ('' or false). Checked here: the step in which
\* such a call evaluates its script ends the call in a failure that is not one
\* of the locator failures.
C17_AsStated ==
  [][(call.scope = "frame" /\ ~frameOk /\ Evaluates) =>
       /\ pc' = "failed"
       /\ thrown'.name \notin LocatorErrors \cup {"none"}]_vars

\* C18 as stated: isVisible, isDisabled, isEditable and isSelected (page level
\* and in frames) return false only when an element was found and its
\* predicate is false, never as a substitute for a failed resolution or a
\* failed script evaluation; a selector that matches nothing is the not-found
\* failure.
C18_AsStated ==
  [][(call.verb \in StateVerbs /\ Evaluates) =>
       /\ (CurList = <<>> /\ (call.scope = "frame" => frameOk)) =>
            (pc' = "failed" /\ thrown'.name = "not-found")
       /\ (pc' = "done" /\ ret' = Bool(FALSE)) =>
            /\ value'.kind = "obj"
            /\ value'.error = "none"
            /\ value'.el \in Range(CurList)
            /\ ~StateCheck(call.verb, value'.el, checkedSet, selected)]_vars

\* C19 as stated: every not-found, ambiguous and out-of-range failure carries
\* the selector as the caller wrote it (for dragTo: the source or the target
\* selector); the ambiguous and the out-of-range failures carry the match
\* count.
C19_AsStated ==
  (pc = "failed" /\ thrown.name \in LocatorErrors) =>
    /\ thrown.locatorInput \in {call.selector, call.target}
    /\ thrown.locatorInput # <<>>

\* The class token as the claim has it escaped.
Escaped(token) ==
  CASE token = <<"a", ".", "b">> -> <<"a", "\\", ".", "b">>
    [] token = <<"/", "a">> -> <<"\\", "/", "a">>
    [] OTHER -> token

\* A shorthand written with both quotes and no quote inside the value.
WellFormed(in) ==
  /\ in.kind = "attr"
  /\ in.q2 # <<>>
  /\ \A i \in DOMAIN in.tokens : Range(in.tokens[i]) \cap Quotes = {}

\* What the claim says a well-formed shorthand maps to.
Canonical(in) ==
  LET v == Join(in.tokens, in.gap)
      n == Lower(in.name)
  IN  CASE n = <<"n", "a", "m", "e">> ->
             <<"[", "n", "a", "m", "e", "=", "\"">> \o v \o <<"\"", "]">>
        [] n = <<"i", "d">> -> <<"[", "i", "d", "=", "\"">> \o v \o <<"\"", "]">>
        [] n = <<"c", "l", "a", "s", "s">> ->
             IF in.tokens = <<>> THEN <<>>
             ELSE <<".">> \o Join([i \in DOMAIN in.tokens |-> Escaped(in.tokens[i])], <<".">>)
        [] OTHER -> <<"[">> \o in.name \o <<"=", "\"">> \o v \o <<"\"", "]">>

RectAgain ==
  IF isXPath(CurSelector)
  THEN buildGetRectAgainXPath(CurList, IF CurIndex.kind = "undefined" THEN Undefined
                                       ELSE ZeroToFirst(CurIndex))
  ELSE GetRectAgainCss(CurList, CurIndex)

\* C21 as stated: after the settle delay a page-level pointer verb measures the
\* element again; a rectangle gives the new center, and when there is none
\* (element removed, index out of range, strict count no longer one) the verb
\* keeps the center of the first measurement and goes on to dispatch its
\* events instead of failing.
C21_AsStated ==
  [][(call.scope = "page" /\ pc \in {"settle", "settle2"} /\ pc' # pc) =>
       IF RectAgain.kind = "null"
       THEN /\ pc' # "failed"
            /\ IF Second THEN to' = getCenter(Rect(value.el))
               ELSE from' = getCenter(Rect(value.el))
       ELSE /\ pc' # "failed"
            /\ IF Second THEN to' = getCenter(Rect(RectAgain.el))
               ELSE from' = getCenter(Rect(RectAgain.el))]_vars

\* The k-th input event type(selector, text) is to send, at the point p.
TypeEvent(k, p, text) ==
  IF k = 1 THEN MouseEvent("mousePressed", p, "left", 1)
  ELSE IF k = 2 THEN MouseEvent("mouseReleased", p, "left", 1)
  ELSE KeyEvent(IF k % 2 = 1 THEN "keyDown" ELSE "keyUp", text[(k - 1) \div 2])

C23_AsStated ==
  [][(call.scope = "frame" /\ call.verb \in CheckVerbs /\ pc = "invoked"
        /\ pc' # pc) =>
       /\ domEvents' = domEvents
       /\ checkedSet' = checkedSet
       /\ (value'.kind = "obj" /\ value'.error = "none") =>
            IF (value'.el \in checkedSet) = (call.verb = "check")
            THEN pc' = "done" /\ events' = <<>>
            ELSE pc' = "dispatch"]_vars

\* C24 as stated: each step of a frame chain must resolve its selector to
\* exactly one iframe of the enclosing document at traversal time; a step that
\* matches no iframe, or two or more, makes the traversal fail, and the engine
\* never descends into one of several matching iframes.
C24_AsStated ==
  doc.kind = "doc" => \A i \in DOMAIN frames : Len(frames[i]) = 1

\* C25 as stated: for a pointer verb on a frame handle the point at which the
\* mouse events are dispatched on the page session is the element's center in
\* the viewport of the top-level page: the center of its rectangle inside its
\* own document plus the offset of the enclosing iframes, wherever the iframe
\* is. Checked here on the step that computes the point.
C25_AsStated ==
  [][(call.scope = "frame" /\ call.verb \in PointerVerbs \cup {"dragAndDrop", "type"}
        /\ Evaluates /\ value'.kind = "obj" /\ value'.error = "none") =>
       LET p == IF Second THEN to' ELSE from'
           c == getCenter(Rect(value'.el))
       IN  /\ p = [x |-> c.x + frameOrigin.x, y |-> c.y + frameOrigin.y]
           /\ ElAt(p, "frame", frameOrigin) = value'.el]_vars

\* C26 as stated: for every dialog that opens in a target, after any sequence
\* of waitForNewTab and switchToTab calls (the browser switching to a tab for
\* which a TabHandle session is still attached included), the handler is
\* invoked exactly once and exactly one dialog-resolution command is issued:
\* per tab, neither the invocations nor the commands outnumber the dialogs.
C26_AsStated ==
  \A t \in Targets :
    /\ DeliveredIn(On(t)) <= opened[t]
    /\ ResolvedIn(On(t)) <= opened[t]

\* C27: a locator or frame handle obtained from the browser before a
\* successful switchToTab sends the commands of its later actions to the
\* session that is current at the time of the action: the verb starts on the
\* current session and on no other, and no action reaches a closed session
\* other than the current one (which is closed only after a switchToTab that
\* failed).
C27_CurrentSession ==
  [][(locatorClick \/ frameClick) =>
       /\ lost' \subseteq lost \cup {current}
       /\ \A s \in Sessions \ {current} :
            left'[s] = left[s] /\ inflight'[s] = inflight[s]
       /\ current \in open =>
            /\ left'[current] = Len(ClickCommands)
            /\ lost' = lost]_vars

\* A locator made on a session that switchToTab closed since has its click's
\* mouse release in flight on the new current session.
C27_Witness ==
  /\ made # 0
  /\ made # current
  /\ made \notin open
  /\ current \in open
  /\ left[current] = 0
  /\ "mouseReleased" \in Range(inflight[current])
  /\ lost = {}

\* C28 as stated: goto(url) issues the navigation command and returns only
\* after the load event of that navigation has fired; whenever the navigated
\* page fires its load event, goto eventually returns, under every ordering of
\* the navigation response and the load event on the session.
C28_AsStated ==
  /\ [](gpc = "done" => fired)
  /\ (gpc # "idle" /\ fired) ~> (gpc = "done")

\* The element the call's selector and cardinality designate on the page as it
\* is (0: none): the one match in strict mode, the first, the last, the n-th.
Designated ==
  LET len == Len(list)
      i == call.index
  IN  IF len = 0 THEN 0
      ELSE IF i.kind = "undefined" THEN (IF len = 1 THEN list[1] ELSE 0)
      ELSE IF i.kind = "first" THEN list[1]
      ELSE IF i.kind = "last" THEN list[len]
      ELSE IF i.n >= 0 /\ i.n < len THEN list[i.n + 1]
      ELSE 0

Checkable(el) == tagName(el) = "INPUT" /\ type(el) \in {"checkbox", "radio"}

\* C29: select on a resolved element that is not a <select> fails with the
\* not-a-select error, changes no selection and fires no change event;
\* check/uncheck on a resolved element that is not an INPUT of type checkbox or
\* radio fails with the not-checkable error and dispatches no pointer event and
\* no DOM event. Page level and frame handles.
C29_TypeMismatch ==
  [][(pc = "invoked" /\ pc' # pc /\ Designated # 0
        /\ (call.scope = "frame" => frameOk)) =>
       /\ (call.verb = "select" /\ tagName(Designated) # "SELECT") =>
            /\ pc' = "failed"
            /\ thrown'.name = "not-select"
            /\ selected' = selected
            /\ domEvents' = <<>> /\ events' = <<>>
       /\ (call.verb \in CheckVerbs /\ ~Checkable(Designated)) =>
            /\ pc' = "failed"
            /\ thrown'.name = "not-checkable"
            /\ checkedSet' = checkedSet
            /\ domEvents' = <<>> /\ events' = <<>>]_vars

\* A select by index on the one match of the selector, a checkbox, has failed.
C29_Witness ==
  /\ call.verb = "select"
  /\ ~IsArray(call.option)
  /\ pc = "failed"
  /\ thrown.name = "not-select"
  /\ Designated = 1
  /\ selected = {} /\ domEvents = <<>> /\ events = <<>>

\* C30 as stated: every protocol session the engine opens is eventually closed
\* by the engine: switchToTab closes the previous current session, and after
\* browser.close() returns no session opened by the engine remains open, the
\* sessions opened by waitForNewTab for TabHandles the caller did not close
\* included.
C30_AsStated ==
  /\ [](closed => open = {})
  /\ [][current' # current => current \notin open']_vars
====
